---- MODULE Spec2Model ----
(***************************************************************************)
(* GAuss: the OAuth2 authorization flow of pkg/gauss (Login, Callback,     *)
(* Logout) over a cookie-backed gorilla session.                           *)
(*                                                                         *)
(* The session lives in the browser's cookie.  A handler loads it with     *)
(* store.Get into a request-scoped Values map, writes that map, and only   *)
(* webSession.Save puts the map back into a Set-Cookie header.  A handler  *)
(* runs without interruption except while it waits for the provider (the   *)
(* token exchange, the profile fetch); other requests of the same browser  *)
(* may run meanwhile.                                                      *)
(***************************************************************************)
EXTENDS Integers, Sequences, FiniteSets, TLC

VARIABLES service, call, cookie, randReads, inflight, last

vars == <<service, call, cookie, randReads, inflight, last>>

----------------------------------------------------------------------------
(* Bounds of the model. *)

\* How many times the random source is read successfully (states issued).
MaxStates == 2

\* How many requests may wait for the provider at the same time.
MaxInFlight == 1

----------------------------------------------------------------------------
(* Constants of the program. *)

ScopeEmail == "email"
ScopeProfile == "profile"
ScopeYouTubeReadonly == "https://www.googleapis.com/auth/youtube.readonly"
ScopeDriveReadonly == "https://www.googleapis.com/auth/drive.readonly"

DefaultScopes == <<ScopeProfile, ScopeEmail>>

\* ScopeStrings converts Scope values to strings, one by one, in order.
ScopeStrings(scopes) == [i \in 1..Len(scopes) |-> scopes[i]]

LoginPath == "/login"
DashboardPath == "/dashboard"
AuthURL == "https://accounts.google.com/o/oauth2/auth"

SessionKeyOAuthState == "oauth_state"
SessionKeyUserEmail == "user_email"
SessionKeyUserName == "user_name"
SessionKeyUserPicture == "user_picture"
SessionKeyOAuthToken == "oauth_token"

\* The sentinel is the empty string.
APIUserSentinelEmpty == ""

APIUserSentinel == "authenticated_api_user"

StatusFound == 302
StatusInternalServerError == 500

\* MaxAge of the session options the store hands out (any value >= 0: the
\* browser keeps the cookie).
StoreMaxAge == 0

IdentityKeys == {SessionKeyUserEmail, SessionKeyUserName, SessionKeyUserPicture}
ProtectedKeys == IdentityKeys \cup {SessionKeyOAuthToken}

----------------------------------------------------------------------------
(* Strings, as package strings treats them.  A string is read byte by byte *)
(* with SubSeq.                                                            *)

Char(s, i) == SubSeq(s, i, i)

\* The first position from i on where s holds the byte c; 0 when none does.
RECURSIVE IndexByteFrom(_, _, _)
IndexByteFrom(s, c, i) ==
    IF i > Len(s) THEN 0
    ELSE IF Char(s, i) = c THEN i
    ELSE IndexByteFrom(s, c, i + 1)

\* strings.Index(s, c) for a single byte c, counted from 1; 0 when absent.
IndexByte(s, c) == IndexByteFrom(s, c, 1)

\* The last position up to i where s holds the byte c; 0 when none does.
RECURSIVE LastIndexByteFrom(_, _, _)
LastIndexByteFrom(s, c, i) ==
    IF i < 1 THEN 0
    ELSE IF Char(s, i) = c THEN i
    ELSE LastIndexByteFrom(s, c, i - 1)

\* strings.LastIndex(s, c), counted from 1; 0 when absent.
LastIndexByte(s, c) == LastIndexByteFrom(s, c, Len(s))

Contains(s, c) == IndexByte(s, c) # 0

HasPrefix(s, prefix) ==
    Len(s) >= Len(prefix) /\ SubSeq(s, 1, Len(prefix)) = prefix

\* s[n:] in Go, n counted from 0.
From(s, n) == SubSeq(s, n + 1, Len(s))

SpaceChars == {" ", "\t", "\n", "\r"}

RECURSIVE TrimLeft(_, _)
TrimLeft(s, cutset) ==
    IF Len(s) > 0 /\ Char(s, 1) \in cutset THEN TrimLeft(From(s, 1), cutset) ELSE s

RECURSIVE TrimRight(_, _)
TrimRight(s, cutset) ==
    IF Len(s) > 0 /\ Char(s, Len(s)) \in cutset
    THEN TrimRight(SubSeq(s, 1, Len(s) - 1), cutset)
    ELSE s

\* strings.Trim(s, cutset)
Trim(s, cutset) == TrimRight(TrimLeft(s, cutset), cutset)

\* strings.TrimSpace
TrimSpace(s) == Trim(s, SpaceChars)

\* strings.Split(s, sep) for a single byte sep.
RECURSIVE Split(_, _)
Split(s, sep) ==
    LET i == IndexByte(s, sep)
    IN  IF i = 0 THEN <<s>>
        ELSE <<SubSeq(s, 1, i - 1)>> \o Split(From(s, i), sep)

UpperLetters == "ABCDEFGHIJKLMNOPQRSTUVWXYZ"
LowerLetters == "abcdefghijklmnopqrstuvwxyz"

LowerChar(c) ==
    LET i == IndexByte(UpperLetters, c)
    IN  IF i = 0 THEN c ELSE Char(LowerLetters, i)

\* strings.ToLower
RECURSIVE ToLower(_)
ToLower(s) == IF Len(s) = 0 THEN "" ELSE LowerChar(Char(s, 1)) \o ToLower(From(s, 1))

----------------------------------------------------------------------------
(* net/url, for URLs without query, fragment, user info or percent escapes *)
(* (none of the base URLs and no callback path carries any).               *)

\* A *url.URL; nil is the nil pointer.
NewURL(scheme, opaque, host, path) ==
    [nil |-> FALSE, Scheme |-> scheme, Opaque |-> opaque, Host |-> host, Path |-> path]

NilURL == [nil |-> TRUE, Scheme |-> "", Opaque |-> "", Host |-> "", Path |-> ""]

Letters == {Char(LowerLetters, i) : i \in 1..Len(LowerLetters)}
               \cup {Char(UpperLetters, i) : i \in 1..Len(UpperLetters)}

Digits == {"0", "1", "2", "3", "4", "5", "6", "7", "8", "9"}

\* stringContainsCTLByte, over the control bytes a TLA+ string can hold.
ContainsCTLByte(s) == \E i \in 1..Len(s) : Char(s, i) \in {"\t", "\n", "\r"}

\* getScheme: the scheme before the first ':' when every byte before it may
\* stand in a scheme; no scheme at the first byte that may not; an error for
\* a ':' at the very start.
RECURSIVE getSchemeFrom(_, _)
getSchemeFrom(rawURL, i) ==
    IF i > Len(rawURL) THEN [err |-> FALSE, scheme |-> "", rest |-> rawURL]
    ELSE LET c == Char(rawURL, i)
         IN  IF c \in Letters THEN getSchemeFrom(rawURL, i + 1)
             ELSE IF c \in Digits \cup {"+", "-", "."}
             THEN IF i = 1 THEN [err |-> FALSE, scheme |-> "", rest |-> rawURL]
                  ELSE getSchemeFrom(rawURL, i + 1)
             ELSE IF c = ":"
             THEN IF i = 1 THEN [err |-> TRUE, scheme |-> "", rest |-> ""]
                  ELSE [err |-> FALSE, scheme |-> SubSeq(rawURL, 1, i - 1),
                        rest |-> From(rawURL, i)]
             ELSE [err |-> FALSE, scheme |-> "", rest |-> rawURL]

getScheme(rawURL) == getSchemeFrom(rawURL, 1)

\* validOptionalPort: "" or ":" followed by digits only.
validOptionalPort(port) ==
    \/ port = ""
    \/ /\ Char(port, 1) = ":"
       /\ \A i \in 2..Len(port) : Char(port, i) \in Digits

\* parseHost: the port after the last ':' (after ']' for an IP literal) must
\* be digits, and a host name holds no space.
parseHostError(host) ==
    \/ /\ HasPrefix(host, "[")
       /\ \/ LastIndexByte(host, "]") = 0
          \/ ~validOptionalPort(From(host, LastIndexByte(host, "]")))
    \/ /\ ~HasPrefix(host, "[")
       /\ LastIndexByte(host, ":") # 0
       /\ ~validOptionalPort(From(host, LastIndexByte(host, ":") - 1))
    \/ Contains(host, " ")

\* url.Parse
Parse(rawURL) ==
    LET sch       == getScheme(rawURL)
        scheme    == ToLower(sch.scheme)
        rest      == sch.rest
        segment   == IF Contains(rest, "/") THEN SubSeq(rest, 1, IndexByte(rest, "/") - 1)
                     ELSE rest
        hasAuth   == HasPrefix(rest, "//") /\ (scheme # "" \/ ~HasPrefix(rest, "///"))
        afterAuth == From(rest, 2)
        slash     == IndexByte(afterAuth, "/")
        authority == IF slash = 0 THEN afterAuth ELSE SubSeq(afterAuth, 1, slash - 1)
        path      == IF slash = 0 THEN "" ELSE From(afterAuth, slash - 1)
        failed    == [err |-> TRUE, url |-> NilURL]
    IN  IF ContainsCTLByte(rawURL) THEN failed
        ELSE IF sch.err THEN failed
        ELSE IF ~HasPrefix(rest, "/") /\ scheme # ""
        THEN [err |-> FALSE, url |-> NewURL(scheme, rest, "", "")]
        ELSE IF ~HasPrefix(rest, "/") /\ Contains(segment, ":") THEN failed
        ELSE IF hasAuth
        THEN IF parseHostError(authority) THEN failed
             ELSE [err |-> FALSE, url |-> NewURL(scheme, "", authority, path)]
        ELSE [err |-> FALSE, url |-> NewURL(scheme, "", "", rest)]

\* (*URL).ResolveReference for a reference that is an absolute path: the
\* reference's path under the base's scheme and host.
ResolveReference(base, ref) ==
    IF ref.Scheme # "" \/ ref.Host # "" \/ ref.Opaque # ""
    THEN [ref EXCEPT !.Scheme = IF ref.Scheme = "" THEN base.Scheme ELSE ref.Scheme]
    ELSE IF ref.Path = "" /\ base.Opaque # ""
    THEN NewURL(base.Scheme, base.Opaque, "", "")
    ELSE NewURL(base.Scheme, "", base.Host,
                IF ref.Path = "" THEN base.Path ELSE ref.Path)

\* (*URL).String
String(u) ==
    (IF u.Scheme # "" THEN u.Scheme \o ":" ELSE "")
    \o (IF u.Opaque # "" THEN u.Opaque
        ELSE (IF (u.Scheme # "" \/ u.Host # "") /\ (u.Host # "" \/ u.Path # "")
              THEN "//" ELSE "")
             \o u.Host
             \o (IF u.Path # "" /\ Char(u.Path, 1) # "/" /\ u.Host # "" THEN "/" ELSE "")
             \o u.Path)

CallbackPath == "/auth/google/callback"

----------------------------------------------------------------------------
(* The session's Values map: a function from the keys present to strings. *)

EmptyValues == [k \in {} |-> ""]

Has(values, key) == key \in DOMAIN values

SetValue(values, key, val) ==
    [k \in DOMAIN values \cup {key} |-> IF k = key THEN val ELSE values[k]]

\* The part of a Values map on a set of keys.
Restrict(values, keys) == [k \in DOMAIN values \cap keys |-> values[k]]

----------------------------------------------------------------------------
(* NewService and its options. *)

\* A *Service; nil is what NewService returns beside an error.
NilService == [nil |-> TRUE]

\* A ServiceOption: nil, or the closure WithLogoutRedirectURL returns, which
\* holds the redirectURL it was made with.
NilOption == [nil |-> TRUE, redirectURL |-> ""]

WithLogoutRedirectURL(redirectURL) == [nil |-> FALSE, redirectURL |-> redirectURL]

\* The URL is stored as given unless it is empty.
ApplyOptionUntrimmed(svc, option) ==
    IF option.redirectURL = "" THEN svc
    ELSE [svc EXCEPT !.logoutRedirectURL = option.redirectURL]

\* The closure applied to a service: a blank URL leaves the service alone.
ApplyOption(svc, option) ==
    LET trimmed == TrimSpace(option.redirectURL)
    IN  IF trimmed = "" THEN svc ELSE [svc EXCEPT !.logoutRedirectURL = trimmed]

\* The options loop of NewService: nil options are skipped.
RECURSIVE ApplyOptions(_, _)
ApplyOptions(svc, options) ==
    IF Len(options) = 0 THEN svc
    ELSE ApplyOptions(IF Head(options).nil THEN svc ELSE ApplyOption(svc, Head(options)),
                      Tail(options))

\* Only the client id is required.
missingCredentialsIDOnly(clientID, clientSecret) == clientID = ""

\* if clientID == "" || clientSecret == ""
missingCredentials(clientID, clientSecret) == clientID = "" \/ clientSecret = ""

\* The scope list goes into the configuration as given.
scopesAsGiven(scopes) == scopes

\* if len(scopes) == 0 { scopes = ScopeStrings(DefaultScopes) }
scopesOrDefault(scopes) == IF Len(scopes) = 0 THEN ScopeStrings(DefaultScopes) ELSE scopes

NewService(clientID, clientSecret, googleOAuthBase, localRedirectURL, scopes, customLoginTemplate, options) ==
    LET base         == Parse(googleOAuthBase)
        relativePath == Parse(CallbackPath).url
        redirectURL  == ResolveReference(base.url, relativePath)
        svc == [nil               |-> FALSE,
                config            |-> [RedirectURL  |-> String(redirectURL),
                                       ClientID     |-> clientID,
                                       ClientSecret |-> clientSecret,
                                       Scopes       |-> scopesOrDefault(scopes),
                                       Endpoint     |-> [AuthURL |-> AuthURL]],
                publicBaseURL     |-> base.url,
                callbackPath      |-> relativePath,
                localRedirectURL  |-> localRedirectURL,
                logoutRedirectURL |-> LoginPath,
                LoginTemplate     |-> customLoginTemplate]
    IN  IF missingCredentials(clientID, clientSecret)
        THEN [service |-> NilService, err |-> "missing Google OAuth credentials"]
        ELSE IF base.err
        THEN [service |-> NilService, err |-> "invalid Google OAuth base URL"]
        ELSE [service |-> ApplyOptions(svc, options), err |-> ""]

\* The arguments of one call of NewService.
NewServiceInput(clientID, clientSecret, googleOAuthBase, scopes, options) ==
    [clientID            |-> clientID,
     clientSecret        |-> clientSecret,
     googleOAuthBase     |-> googleOAuthBase,
     localRedirectURL    |-> DashboardPath,
     scopes              |-> scopes,
     customLoginTemplate |-> "",
     options             |-> options]

NewServiceOf(in) ==
    NewService(in.clientID, in.clientSecret, in.googleOAuthBase, in.localRedirectURL,
               in.scopes, in.customLoginTemplate, in.options)

\* A call of one of the package's functions and what it returned.  args are
\* the arguments the service was or is to be constructed with, request the
\* request whose callback URL is asked for.
Call(op, args, request, result) ==
    [op |-> op, args |-> args, request |-> request, result |-> result]

\* The scope lists services are constructed with.
ScopeInputs ==
    { <<>>,
      <<ScopeDriveReadonly>>,
      <<ScopeYouTubeReadonly, ScopeEmail>> }

\* The calls of NewService that the running services were made by: the test
\* suite's, over the scope lists, and one with a logout destination.
ServiceInputs ==
    {NewServiceInput("id", "secret", "http://localhost:8080", sc, <<>>) : sc \in ScopeInputs}
        \cup {NewServiceInput("id", "secret", "http://localhost:8080", <<>>,
                               <<WithLogoutRedirectURL("/landing")>>)}

----------------------------------------------------------------------------
(* The callback URL of a request: scheme, host and port are taken from the *)
(* forwarding headers a reverse proxy sets, then from the request, then    *)
(* from the configured base URL.                                           *)

headerForwarded        == "Forwarded"
headerXForwardedProto  == "X-Forwarded-Proto"
headerXForwardedScheme == "X-Forwarded-Scheme"
headerXForwardedHost   == "X-Forwarded-Host"
headerXForwardedPort   == "X-Forwarded-Port"
forwardedProtoPrefix   == "proto="
forwardedHostPrefix    == "host="
headerValueSeparator   == ","
forwardedPairSeparator == ";"
defaultHTTPScheme      == "https"

HeaderNames ==
    {headerForwarded, headerXForwardedProto, headerXForwardedScheme,
     headerXForwardedHost, headerXForwardedPort}

\* An *http.Request: its headers (Header.Get gives "" for an absent one),
\* Host, whether TLS is set, and URL.  nil is the nil pointer.
NoHeader == [h \in HeaderNames |-> ""]

HTTPRequest(header, host, tls, url) ==
    [nil |-> FALSE, Header |-> header, Host |-> host, TLS |-> tls, URL |-> url]

NilRequest == [nil |-> TRUE, Header |-> NoHeader, Host |-> "", TLS |-> FALSE, URL |-> NilURL]

\* The first element of a sequence of strings that is not "", or "".
RECURSIVE FirstNonEmpty(_)
FirstNonEmpty(values) ==
    IF Len(values) = 0 THEN ""
    ELSE IF Head(values) # "" THEN Head(values)
    ELSE FirstNonEmpty(Tail(values))

\* firstHeaderValue: the first comma-separated token that is not blank.
firstHeaderValue(headerValue) ==
    IF headerValue = "" THEN ""
    ELSE LET segments == Split(headerValue, headerValueSeparator)
         IN  FirstNonEmpty([i \in 1..Len(segments) |-> TrimSpace(segments[i])])

\* Variant: the key of a pair is matched as it is written.
forwardedPairValueCaseSensitive(pair, prefix) ==
    LET trimmedPair == TrimSpace(pair)
    IN  IF trimmedPair = "" THEN ""
        ELSE IF ~HasPrefix(trimmedPair, prefix) THEN ""
        ELSE Trim(TrimSpace(From(trimmedPair, Len(prefix))), {"\""})

\* The value of one pair of a Forwarded directive under a prefix, or "".
forwardedPairValue(pair, prefix) ==
    LET trimmedPair == TrimSpace(pair)
    IN  IF trimmedPair = "" THEN ""
        ELSE IF ~HasPrefix(ToLower(trimmedPair), prefix) THEN ""
        ELSE Trim(TrimSpace(From(trimmedPair, Len(prefix))), {"\""})

\* The inner loop of extractForwardedDirective over one directive.
forwardedDirectiveValue(directive, prefix) ==
    LET trimmedDirective == TrimSpace(directive)
        pairs == Split(trimmedDirective, forwardedPairSeparator)
    IN  IF trimmedDirective = "" THEN ""
        ELSE FirstNonEmpty([i \in 1..Len(pairs) |-> forwardedPairValue(pairs[i], prefix)])

extractForwardedDirective(headerValue, prefix) ==
    IF headerValue = "" THEN ""
    ELSE LET directives == Split(headerValue, headerValueSeparator)
         IN  FirstNonEmpty([i \in 1..Len(directives) |->
                               forwardedDirectiveValue(directives[i], prefix)])

\* The X-Forwarded-Scheme header is not consulted.
resolveSchemeNoForwardedScheme(svc, request) ==
    LET forwarded == extractForwardedDirective(request.Header[headerForwarded],
                                               forwardedProtoPrefix)
        proto     == firstHeaderValue(request.Header[headerXForwardedProto])
    IN  IF forwarded # "" THEN ToLower(forwarded)
        ELSE IF proto # "" THEN ToLower(proto)
        ELSE IF request.TLS THEN defaultHTTPScheme
        ELSE IF ~request.URL.nil /\ request.URL.Scheme # "" THEN ToLower(request.URL.Scheme)
        ELSE IF ~svc.publicBaseURL.nil /\ svc.publicBaseURL.Scheme # ""
        THEN ToLower(svc.publicBaseURL.Scheme)
        ELSE defaultHTTPScheme

resolveScheme(svc, request) ==
    LET forwarded == extractForwardedDirective(request.Header[headerForwarded],
                                               forwardedProtoPrefix)
        proto     == firstHeaderValue(request.Header[headerXForwardedProto])
        scheme    == firstHeaderValue(request.Header[headerXForwardedScheme])
    IN  IF forwarded # "" THEN ToLower(forwarded)
        ELSE IF proto # "" THEN ToLower(proto)
        ELSE IF scheme # "" THEN ToLower(scheme)
        ELSE IF request.TLS THEN defaultHTTPScheme
        ELSE IF ~request.URL.nil /\ request.URL.Scheme # "" THEN ToLower(request.URL.Scheme)
        ELSE IF ~svc.publicBaseURL.nil /\ svc.publicBaseURL.Scheme # ""
        THEN ToLower(svc.publicBaseURL.Scheme)
        ELSE defaultHTTPScheme

\* The request's Host comes before the forwarding headers.
resolveHostRequestFirst(svc, request) ==
    LET forwarded == extractForwardedDirective(request.Header[headerForwarded],
                                               forwardedHostPrefix)
        host      == firstHeaderValue(request.Header[headerXForwardedHost])
    IN  IF request.Host # "" THEN request.Host
        ELSE IF forwarded # "" THEN forwarded
        ELSE IF host # "" THEN host
        ELSE IF ~svc.publicBaseURL.nil THEN svc.publicBaseURL.Host
        ELSE ""

resolveHost(svc, request) ==
    LET forwarded == extractForwardedDirective(request.Header[headerForwarded],
                                               forwardedHostPrefix)
        host      == firstHeaderValue(request.Header[headerXForwardedHost])
    IN  IF forwarded # "" THEN forwarded
        ELSE IF host # "" THEN host
        ELSE IF request.Host # "" THEN request.Host
        ELSE IF ~svc.publicBaseURL.nil THEN svc.publicBaseURL.Host
        ELSE ""

resolvePort(request) == firstHeaderValue(request.Header[headerXForwardedPort])

\* The request == nil guard is missing: a nil request is read as one with no
\* headers, no Host and no TLS.
effectiveBaseURLNoNilGuard(svc, request) ==
    LET rq     == IF request.nil THEN HTTPRequest(NoHeader, "", FALSE, NilURL) ELSE request
        scheme == resolveScheme(svc, rq)
        host   == resolveHost(svc, rq)
        port   == resolvePort(rq)
    IN  IF svc.publicBaseURL.nil THEN NilURL
        ELSE IF host = "" THEN svc.publicBaseURL
        ELSE [svc.publicBaseURL EXCEPT
                 !.Scheme = scheme,
                 !.Host = IF port # "" /\ ~Contains(host, ":")
                          THEN host \o ":" \o port ELSE host]

\* Variant: the resolved scheme is used only with a host that a forwarding
\* header supplied.
effectiveBaseURLCoupled(svc, request) ==
    LET scheme == resolveScheme(svc, request)
        host   == resolveHost(svc, request)
        port   == resolvePort(request)
    IN  IF svc.publicBaseURL.nil THEN NilURL
        ELSE IF request.nil THEN svc.publicBaseURL
        ELSE IF host = "" THEN svc.publicBaseURL
        ELSE [svc.publicBaseURL EXCEPT
                 !.Scheme = IF host = request.Host THEN @ ELSE scheme,
                 !.Host = IF port # "" /\ ~Contains(host, ":")
                          THEN host \o ":" \o port ELSE host]

effectiveBaseURL(svc, request) ==
    LET scheme == resolveScheme(svc, request)
        host   == resolveHost(svc, request)
        port   == resolvePort(request)
    IN  IF svc.publicBaseURL.nil THEN NilURL
        ELSE IF request.nil THEN svc.publicBaseURL
        ELSE IF host = "" THEN svc.publicBaseURL
        ELSE [svc.publicBaseURL EXCEPT
                 !.Scheme = scheme,
                 !.Host = IF port # "" /\ ~Contains(host, ":")
                          THEN host \o ":" \o port ELSE host]

redirectURLForRequest(svc, request) ==
    LET baseURL == effectiveBaseURL(svc, request)
    IN  IF svc.callbackPath.nil THEN svc.config.RedirectURL
        ELSE IF baseURL.nil THEN svc.config.RedirectURL
        ELSE String(ResolveReference(baseURL, svc.callbackPath))

\* An *oauth2.Config that no handler has built yet.
NoConfig ==
    [RedirectURL |-> "", ClientID |-> "", ClientSecret |-> "", Scopes |-> <<>>,
     Endpoint |-> [AuthURL |-> ""]]

\* The requests the handlers receive: one that reached the server directly
\* and one that came through a TLS-terminating proxy.
DirectRequest == HTTPRequest(NoHeader, "localhost:8080", FALSE, NewURL("", "", "", "/"))

ProxiedRequest ==
    HTTPRequest([NoHeader EXCEPT ![headerXForwardedProto] = "https"], "example.com", FALSE,
                NewURL("", "", "", "/"))

HandlerRequests == {DirectRequest, ProxiedRequest}

\* The provider sends the browser back to the public address: a Callback
\* comes through the proxy.
CallbackRequests == {ProxiedRequest}

\* What redirectURLForRequest reads of a service that has a base URL and a
\* callback path: these two, and nothing of its configuration.
WithoutConfig(svc) == [svc EXCEPT !.config = NoConfig]

\* redirectURLForRequest of the handlers' requests on the services as
\* constructed, evaluated once.
HandlerRedirectURLs ==
    [p \in {<<WithoutConfig(NewServiceOf(in).service), request>> :
               in \in ServiceInputs, request \in HandlerRequests}
        |-> redirectURLForRequest(p[1], p[2])]

\* Variant: the redirect URL computed at construction is used for every
\* request.
redirectURLConfigured(svc, request) == svc.config.RedirectURL

\* redirectURLForRequest as the handlers call it, read from
\* HandlerRedirectURLs.
redirectURL(svc, request) ==
    IF svc.callbackPath.nil \/ svc.publicBaseURL.nil
    THEN svc.config.RedirectURL
    ELSE HandlerRedirectURLs[<<WithoutConfig(svc), request>>]

\* The redirect URL is written through the pointer to the shared
\* configuration, which is then returned.
authorizationConfigForRequestShared(svc, request) ==
    LET shared == [svc.config EXCEPT !.RedirectURL = redirectURL(svc, request)]
    IN  [service |-> [svc EXCEPT !.config = shared], config |-> shared]

\* authorizationConfigForRequest: the configuration the request works with,
\* and the service as the call leaves it.
authorizationConfigForRequest(svc, request) ==
    LET clone == [svc.config EXCEPT !.RedirectURL = redirectURL(svc, request)]
    IN  [service |-> svc, config |-> clone]

----------------------------------------------------------------------------
(* GenerateState: 32 bytes of crypto/rand, URL-safe base64.  A read of the *)
(* random source either fails or yields bytes it has not yielded before;   *)
(* the n-th successful read is written n.                                  *)

RandError == [err |-> TRUE, bytes |-> 0]
RandBytes(n) == [err |-> FALSE, bytes |-> n]

EncodeToString(bytes) == "s" \o ToString(bytes)

\* A failed read is answered with a fixed state and no error.
GenerateStateDegraded(rnd) ==
    IF rnd.err
    THEN [state |-> EncodeToString(0), err |-> FALSE]
    ELSE [state |-> EncodeToString(rnd.bytes), err |-> FALSE]

GenerateState(rnd) ==
    IF rnd.err
    THEN [state |-> "", err |-> TRUE]
    ELSE [state |-> EncodeToString(rnd.bytes), err |-> FALSE]

\* What rand.Read may do at this point.
RandOutcomes == {RandError} \cup
                (IF randReads < MaxStates THEN {RandBytes(randReads + 1)} ELSE {})

----------------------------------------------------------------------------
(* Tokens and profiles the provider may return. *)

Token(access, refresh) ==
    [AccessToken |-> access, TokenType |-> "bearer", RefreshToken |-> refresh]

NoToken == [AccessToken |-> "", TokenType |-> "", RefreshToken |-> ""]

\* oauthConfig.Exchange: an error, or a token with or without a refresh token.
ExchangeResults ==
    { [err |-> TRUE, token |-> NoToken],
      [err |-> FALSE, token |-> Token("abc", "")],
      [err |-> FALSE, token |-> Token("abc", "rtok")] }

GoogleUser(email, name, picture) ==
    [Email |-> email, Name |-> name, Picture |-> picture]

\* Service.GetUser: an error (transport, status, decoding), or the decoded
\* profile; fields the provider leaves out decode to the empty string.
GetUserResults ==
    { [err |-> TRUE, user |-> GoogleUser("", "", "")],
      [err |-> FALSE, user |-> GoogleUser("e@example.com", "tester", "pic")],
      [err |-> FALSE, user |-> GoogleUser("", "", "")] }

\* json.Marshal of an oauth2.Token: token_type and refresh_token are
\* omitempty.  Marshalling a struct of strings does not fail.
JSONField(name, val) == "\"" \o name \o "\":\"" \o val \o "\""

JSONOptional(name, val) == IF val = "" THEN "" ELSE "," \o JSONField(name, val)

Marshal(token) ==
    "{" \o JSONField("access_token", token.AccessToken)
        \o JSONOptional("token_type", token.TokenType)
        \o JSONOptional("refresh_token", token.RefreshToken) \o "}"

----------------------------------------------------------------------------
(* Responses. *)

EmptyQuery == [k \in {} |-> ""]

NoCookie == [set |-> FALSE, values |-> EmptyValues, maxAge |-> StoreMaxAge]

URL(path, query) == [path |-> path, query |-> query]

\* http.Redirect(w, r, target, http.StatusFound)
Redirect(location) == [code |-> StatusFound, location |-> location, text |-> ""]

\* What webSession.Save returns when it fails: an error of the cookie codec.
webSessionSaveError == "securecookie: the value is too long"

\* http.Error(responseWriter, text, code)
HTTPError(text, code) == [code |-> code, location |-> URL("", EmptyQuery), text |-> text]

\* constants.LoginPath + "?error=" + tag
ErrorRedirect(tag) == Redirect(URL(LoginPath, [error |-> tag]))

\* oauthConfig.AuthCodeURL(state, AccessTypeOffline, prompt=consent)
AuthCodeURL(config, state) ==
    URL(config.Endpoint.AuthURL,
        [response_type |-> "code", client_id |-> config.ClientID,
         redirect_uri |-> config.RedirectURL, state |-> state,
         access_type |-> "offline", prompt |-> "consent"])

NoResponse == [code |-> 0, location |-> URL("", EmptyQuery), text |-> ""]

----------------------------------------------------------------------------
(* A request: its inputs, the session it carried (sent), the request-scoped*)
(* Values map (session), the handler's position, what it did (log), the    *)
(* response and the Set-Cookie the response carries.                       *)

\* What the world outside the handler answered to the request's calls, as the
\* request met it: the token endpoint, the profile endpoint, the random
\* source, the session store.  An answer is read only if log has the call.
NoAnswers ==
    [exchange |-> [err |-> FALSE, token |-> NoToken],
     user |-> [err |-> FALSE, user |-> GoogleUser("", "", "")],
     rnd |-> RandError,
     saveOk |-> TRUE]

NewRequest(kind, state, code, sent) ==
    [kind |-> kind, state |-> state, code |-> code,
     sent |-> sent, session |-> sent, maxAge |-> StoreMaxAge,
     pc |-> "start", token |-> NoToken, log |-> <<>>,
     resp |-> NoResponse, setCookie |-> NoCookie, env |-> NoAnswers,
     http |-> DirectRequest, config |-> NoConfig, shared |-> NoConfig,
     cancelled |-> FALSE]

NoRequest == [NewRequest("none", "", "", EmptyValues) EXCEPT !.pc = "done"]

Logged(rq, event) == [rq EXCEPT !.log = Append(@, event)]

\* webSession.Values[key] = val
Write(rq, key, val) ==
    [rq EXCEPT !.session = SetValue(@, key, val),
               !.log = Append(@, "Set:" \o key)]

\* The handler writes its response and returns.
Respond(rq, resp) == [rq EXCEPT !.resp = resp, !.pc = "done"]

\* oauthConfig := service.authorizationConfigForRequest(request): the
\* request's configuration, and the shared one as the call leaves it.
\* The request with the configuration a call of authorizationConfigForRequest
\* returned, and the shared one as the call left it.
Authorized(rq, a) == [rq EXCEPT !.config = a.config, !.shared = a.service.config]

Authorize(rq) ==
    Authorized(rq, authorizationConfigForRequest([service EXCEPT !.config = rq.shared],
                                                 rq.http))

\* Login's last lines: the configuration of the request, and the redirect to
\* the authorization URL made from it.
\* http.Redirect to oauthConfig.AuthCodeURL of the request's configuration.
AuthorizationRedirect(rq, state) == Respond(rq, Redirect(AuthCodeURL(rq.config, state)))

RedirectToProvider(rq, state) == AuthorizationRedirect(Authorize(rq), state)

\* webSession.Save succeeded: the Values map goes out as Set-Cookie.
Saved(rq) ==
    [rq EXCEPT !.setCookie = [set |-> TRUE, values |-> rq.session,
                              maxAge |-> rq.maxAge],
               !.log = Append(@, "Save")]

----------------------------------------------------------------------------
(* Handlers.Login.  Callback calls it too, on the same request, when the   *)
(* token has no refresh token; store.Get then returns the request's own    *)
(* session again.                                                          *)

\* Variants of Login with one step wrong.
\* The redirect is sent without saving the session.
LoginNoSave(rq, rnd, saveOk) ==
    LET gs == GenerateState(rnd)
        r1 == Logged(rq, "GenerateState")
    IN  IF gs.err
        THEN Respond(r1, HTTPError("Internal Server Error", StatusInternalServerError))
        ELSE RedirectToProvider(Write(r1, SessionKeyOAuthState, gs.state), gs.state)

\* The error of webSession.Save is dropped.
LoginIgnoreSaveError(rq, rnd, saveOk) ==
    LET gs == GenerateState(rnd)
        r1 == Logged(rq, "GenerateState")
    IN  IF gs.err
        THEN Respond(r1, HTTPError("Internal Server Error", StatusInternalServerError))
        ELSE LET r2 == Write(r1, SessionKeyOAuthState, gs.state)
             IN  RedirectToProvider(IF saveOk THEN Saved(r2) ELSE Logged(r2, "SaveFailed"), gs.state)

\* A state the session already holds is kept and sent again.
LoginKeepState(rq, rnd, saveOk) ==
    LET gs == GenerateState(rnd)
        r1 == Logged(rq, "GenerateState")
        kept == IF Has(rq.session, SessionKeyOAuthState)
                THEN rq.session[SessionKeyOAuthState] ELSE gs.state
    IN  IF gs.err
        THEN Respond(r1, HTTPError("Internal Server Error", StatusInternalServerError))
        ELSE LET r2 == Write(r1, SessionKeyOAuthState, kept)
             IN  IF ~saveOk
                 THEN Respond(Logged(r2, "SaveFailed"),
                              HTTPError("Internal Server Error", StatusInternalServerError))
                 ELSE RedirectToProvider(Saved(r2), kept)

\* The state is written into a session emptied of what it held.
LoginFreshSession(rq, rnd, saveOk) ==
    LET gs == GenerateState(rnd)
        r1 == Logged(rq, "GenerateState")
    IN  IF gs.err
        THEN Respond(r1, HTTPError("Internal Server Error", StatusInternalServerError))
        ELSE LET r2 == Write([r1 EXCEPT !.session = EmptyValues],
                             SessionKeyOAuthState, gs.state)
             IN  IF ~saveOk
                 THEN Respond(Logged(r2, "SaveFailed"),
                              HTTPError("Internal Server Error", StatusInternalServerError))
                 ELSE RedirectToProvider(Saved(r2), gs.state)

Login(rq, rnd, saveOk) ==
    LET gs == GenerateState(rnd)
        r1 == Logged(rq, "GenerateState")
    IN  IF gs.err
        THEN Respond(r1, HTTPError("Internal Server Error", StatusInternalServerError))
        ELSE LET r2 == Write(r1, SessionKeyOAuthState, gs.state)
             IN  IF ~saveOk
                 THEN Respond(Logged(r2, "SaveFailed"),
                              HTTPError("Internal Server Error", StatusInternalServerError))
                 ELSE RedirectToProvider(Saved(r2), gs.state)

----------------------------------------------------------------------------
(* Handlers.Callback, in the three stretches between its waits.            *)

\* Variant: the profile is fetched whatever the scopes are.
hasProfileScopeAlways(scopes) == TRUE

\* Variant: the profile is fetched only when every scope is profile-bearing.
hasProfileScopeEvery(scopes) ==
    \A i \in 1..Len(scopes) : scopes[i] = ScopeProfile \/ scopes[i] = ScopeEmail

hasProfileScope(scopes) ==
    \E i \in 1..Len(scopes) : scopes[i] = ScopeProfile \/ scopes[i] = ScopeEmail

\* Variants of CallbackBegin with one checkpoint wrong.
\* The stored and the received state are not compared.
CallbackBeginNoCompare(rq) ==
    IF ~Has(rq.session, SessionKeyOAuthState)
    THEN Respond(rq, ErrorRedirect("missing_state"))
    ELSE IF rq.code = ""
    THEN Respond(rq, ErrorRedirect("missing_code"))
    ELSE [Logged(Authorize(rq), "Exchange") EXCEPT !.pc = "exchange"]

\* The type assertion's ok is dropped: a missing stored state reads as "".
CallbackBeginZeroState(rq) ==
    LET stored == IF Has(rq.session, SessionKeyOAuthState)
                  THEN rq.session[SessionKeyOAuthState] ELSE ""
    IN  IF stored # rq.state
        THEN Respond(rq, ErrorRedirect("invalid_state"))
        ELSE IF rq.code = ""
        THEN Respond(rq, ErrorRedirect("missing_code"))
        ELSE [Logged(Authorize(rq), "Exchange") EXCEPT !.pc = "exchange"]

\* The code is checked before the state.
CallbackBeginCodeFirst(rq) ==
    IF rq.code = ""
    THEN Respond(rq, ErrorRedirect("missing_code"))
    ELSE IF ~Has(rq.session, SessionKeyOAuthState)
    THEN Respond(rq, ErrorRedirect("missing_state"))
    ELSE IF rq.session[SessionKeyOAuthState] # rq.state
    THEN Respond(rq, ErrorRedirect("invalid_state"))
    ELSE [Logged(Authorize(rq), "Exchange") EXCEPT !.pc = "exchange"]

\* From the start to the call of the token endpoint.
CallbackBegin(rq) ==
    IF ~Has(rq.session, SessionKeyOAuthState)
    THEN Respond(rq, ErrorRedirect("missing_state"))
    ELSE IF rq.session[SessionKeyOAuthState] # rq.state
    THEN Respond(rq, ErrorRedirect("invalid_state"))
    ELSE IF rq.code = ""
    THEN Respond(rq, ErrorRedirect("missing_code"))
    ELSE [Logged(Authorize(rq), "Exchange") EXCEPT !.pc = "exchange"]

\* Variant of CallbackStore: the token is not stored (the branch of a failed
\* marshalling taken).
CallbackStoreNoToken(rq, saveOk) ==
    IF ~saveOk
    THEN Respond(Logged(rq, "SaveFailed"), ErrorRedirect("session_save_failed"))
    ELSE Respond(Saved(rq), Redirect(URL(service.localRedirectURL, EmptyQuery)))

\* The token is marshalled and stored, the session saved, the user sent on.
CallbackStore(rq, saveOk) ==
    LET r1 == Write(rq, SessionKeyOAuthToken, Marshal(rq.token))
    IN  IF ~saveOk
        THEN Respond(Logged(r1, "SaveFailed"), ErrorRedirect("session_save_failed"))
        ELSE Respond(Saved(r1), Redirect(URL(service.localRedirectURL, EmptyQuery)))

\* Variant of CallbackExchanged: a token without refresh token is accepted.
CallbackExchangedAnyToken(rq, result, rnd, saveOk) ==
    IF result.err
    THEN Respond(rq, ErrorRedirect("token_exchange_failed"))
    ELSE LET r1 == [rq EXCEPT !.token = result.token]
         IN  IF hasProfileScope(rq.config.Scopes)
             THEN [Logged(r1, "GetUser") EXCEPT !.pc = "getuser"]
             ELSE CallbackStore(Write(r1, SessionKeyUserEmail, APIUserSentinel),
                                saveOk)

\* Variant of CallbackExchanged: the token is put into the session before its
\* refresh token is looked at.
CallbackExchangedStoreFirst(rq, result, rnd, saveOk) ==
    IF result.err
    THEN Respond(rq, ErrorRedirect("token_exchange_failed"))
    ELSE IF result.token.RefreshToken = ""
    THEN Login(Write(rq, SessionKeyOAuthToken, Marshal(result.token)), rnd, saveOk)
    ELSE LET r1 == [rq EXCEPT !.token = result.token]
         IN  IF hasProfileScope(rq.config.Scopes)
             THEN [Logged(r1, "GetUser") EXCEPT !.pc = "getuser"]
             ELSE CallbackStore(Write(r1, SessionKeyUserEmail, APIUserSentinel),
                                saveOk)

\* From the token endpoint's answer to the call of the profile endpoint, or
\* to the end when no profile is fetched.
CallbackExchanged(rq, result, rnd, saveOk) ==
    IF result.err
    THEN Respond(rq, ErrorRedirect("token_exchange_failed"))
    ELSE IF result.token.RefreshToken = ""
    THEN Login(rq, rnd, saveOk)
    ELSE LET r1 == [rq EXCEPT !.token = result.token]
         IN  IF hasProfileScope(rq.config.Scopes)
             THEN [Logged(r1, "GetUser") EXCEPT !.pc = "getuser"]
             ELSE CallbackStore(Write(r1, SessionKeyUserEmail, APIUserSentinel),
                                saveOk)

\* Variants of CallbackGotUser.
\* The name and the picture are stored under each other's key.
CallbackGotUserSwapped(rq, result, saveOk) ==
    IF result.err
    THEN Respond(rq, ErrorRedirect("user_info_failed"))
    ELSE CallbackStore(
             Write(Write(Write(rq, SessionKeyUserEmail, result.user.Email),
                         SessionKeyUserName, result.user.Picture),
                   SessionKeyUserPicture, result.user.Name),
             saveOk)

\* The email is written before the error of GetUser is looked at.
CallbackGotUserWriteFirst(rq, result, saveOk) ==
    LET r1 == Write(rq, SessionKeyUserEmail, result.user.Email)
    IN  IF result.err
        THEN Respond(r1, ErrorRedirect("user_info_failed"))
        ELSE CallbackStore(
                 Write(Write(r1, SessionKeyUserName, result.user.Name),
                       SessionKeyUserPicture, result.user.Picture),
                 saveOk)

\* From the profile endpoint's answer to the end.
CallbackGotUser(rq, result, saveOk) ==
    IF result.err
    THEN Respond(rq, ErrorRedirect("user_info_failed"))
    ELSE CallbackStore(
             Write(Write(Write(rq, SessionKeyUserEmail, result.user.Email),
                         SessionKeyUserName, result.user.Name),
                   SessionKeyUserPicture, result.user.Picture),
             saveOk)

----------------------------------------------------------------------------
(* Handlers.Logout *)

\* webSession.Options.MaxAge is left as the store made it.
LogoutKeepMaxAge(rq, saveOk) ==
    IF ~saveOk
    THEN Respond(Logged(rq, "SaveFailed"),
                 HTTPError(webSessionSaveError, StatusInternalServerError))
    ELSE Respond(Saved(rq), Redirect(URL(LoginPath, EmptyQuery)))

\* The redirect is sent without saving the session.
LogoutNoSave(rq, saveOk) ==
    Respond([rq EXCEPT !.maxAge = -1], Redirect(URL(LoginPath, EmptyQuery)))

Logout(rq, saveOk) ==
    LET r1 == [rq EXCEPT !.maxAge = -1]
    IN  IF ~saveOk
        THEN Respond(Logged(r1, "SaveFailed"),
                     HTTPError(webSessionSaveError, StatusInternalServerError))
        ELSE Respond(Saved(r1), Redirect(URL(LoginPath, EmptyQuery)))

----------------------------------------------------------------------------
(* AuthMiddleware wraps a protected route: with an identity in the session *)
(* the wrapped handler runs ("Next") on the request as it came, and the    *)
(* middleware writes no response of its own; without one the answer is a   *)
(* redirect to the login path.                                             *)

AuthMiddleware(rq) ==
    IF Has(rq.session, SessionKeyUserEmail) /\ rq.session[SessionKeyUserEmail] # ""
    THEN [Logged(rq, "Next") EXCEPT !.pc = "done"]
    ELSE Respond(rq, Redirect(URL(LoginPath, EmptyQuery)))

----------------------------------------------------------------------------
(* The browser: it sends its cookie with every request and replaces it by  *)
(* a response's Set-Cookie; a negative Max-Age deletes the cookie.         *)

Browser(old, setCookie) ==
    IF ~setCookie.set THEN old
    ELSE IF setCookie.maxAge < 0 THEN EmptyValues
    ELSE setCookie.values

\* A call to the provider returns; `cancelled` tells whether the client went
\* away while the handler waited, which cancels the request's context and
\* leaves no browser to receive the response.
\* oauthConfig.Exchange(request.Context(), authorizationCode): under a
\* cancelled context the call returns the context's error.
ExchangeResultsFor(rq) ==
    IF rq.cancelled THEN {result \in ExchangeResults : result.err} ELSE ExchangeResults

\* serviceInstance.GetUser(oauthToken): its HTTP client is made with
\* context.Background(), so the request's context does not reach the call.
GetUserResultsFor(rq) == GetUserResults

\* The `state` and `code` query parameters a Callback request may carry.
QueryStates == {"", "forged"} \cup {EncodeToString(n) : n \in 1..randReads}
QueryCodes == {"", "c1"}

Remove(seq, i) == SubSeq(seq, 1, i - 1) \o SubSeq(seq, i + 1, Len(seq))

\* Whether the handler read the random source and got bytes.
ReadRandom(rq, rnd) ==
    /\ ~rnd.err
    /\ \E i \in 1..Len(rq.log) : rq.log[i] = "GenerateState"

----------------------------------------------------------------------------
(* The state machine. *)

Init ==
    /\ \E in \in ServiceInputs :
           /\ call = Call("NewService", in, NilRequest, NewServiceOf(in))
           /\ service = call.result.service
    /\ cookie = EmptyValues
    /\ randReads = 0
    /\ inflight = <<>>
    /\ last = NoRequest

\* The request in flight at position i goes on to rq.
Proceed(i, rq, rnd) ==
    /\ randReads' = IF ReadRandom(rq, rnd) THEN randReads + 1 ELSE randReads
    /\ IF rq.pc = "done"
       THEN /\ inflight' = Remove(inflight, i)
            /\ last' = rq
            /\ cookie' = IF rq.cancelled THEN cookie ELSE Browser(cookie, rq.setCookie)
       ELSE /\ inflight' = [inflight EXCEPT ![i] = rq]
            /\ UNCHANGED <<last, cookie>>
    /\ service' = [service EXCEPT !.config = rq.shared]
    /\ UNCHANGED call

\* The outcomes of the random source and of webSession.Save that a stretch of
\* Callback can meet: those of the calls it makes.
RandFor(result) ==
    IF ~result.err /\ result.token.RefreshToken = "" THEN RandOutcomes ELSE {RandError}

SaveFor(calls) == IF calls THEN BOOLEAN ELSE {TRUE}

\* A request as it reaches its handler, with the session the browser sent.
Arrive(kind, state, code, http) ==
    [NewRequest(kind, state, code, cookie) EXCEPT !.http = http, !.shared = service.config]

\* A Callback in flight as its handler resumes.
Resume(rq) == [rq EXCEPT !.shared = service.config]

\* Login has answered rq: the browser takes the response.
Answered(rq, rnd) ==
    /\ last' = rq
    /\ cookie' = Browser(cookie, rq.setCookie)
    /\ randReads' = IF ReadRandom(rq, rnd) THEN randReads + 1 ELSE randReads
    /\ service' = [service EXCEPT !.config = rq.shared]
    /\ UNCHANGED <<call, inflight>>

LoginRequest ==
    \E rnd \in RandOutcomes :
    \E saveOk \in SaveFor(~rnd.err) :
    \E http \in HandlerRequests :
        Answered(Login([Arrive("Login", "", "", http)
                           EXCEPT !.env.rnd = rnd, !.env.saveOk = saveOk],
                       rnd, saveOk),
                 rnd)

\* Callback has answered rq, or waits for the token endpoint.
Begun(rq) ==
    /\ IF rq.pc = "done"
       THEN last' = rq /\ UNCHANGED inflight
       ELSE /\ Len(inflight) < MaxInFlight
            /\ inflight' = Append(inflight, rq)
            /\ UNCHANGED last
    /\ service' = [service EXCEPT !.config = rq.shared]
    /\ UNCHANGED <<call, cookie, randReads>>

CallbackRequest ==
    \E state \in QueryStates, code \in QueryCodes, http \in CallbackRequests :
        Begun(CallbackBegin(Arrive("Callback", state, code, http)))

ExchangeReturns ==
    \E i \in 1..Len(inflight) :
        /\ inflight[i].pc = "exchange"
        /\ \E cancelled \in BOOLEAN :
           LET waiting == [Resume(inflight[i]) EXCEPT !.cancelled = cancelled]
           IN  \E result \in ExchangeResultsFor(waiting) :
               \E rnd \in RandFor(result) :
               \E saveOk \in SaveFor(/\ ~result.err
                                      /\ IF result.token.RefreshToken = ""
                                         THEN ~rnd.err
                                         ELSE ~hasProfileScope(waiting.config.Scopes)) :
                   LET rq0 == [waiting EXCEPT !.env.exchange = result,
                                              !.env.rnd = rnd,
                                              !.env.saveOk = saveOk]
                   IN  Proceed(i, CallbackExchanged(rq0, result, rnd, saveOk), rnd)

GetUserReturns ==
    \E i \in 1..Len(inflight) :
        /\ inflight[i].pc = "getuser"
        /\ \E cancelled \in BOOLEAN :
           LET waiting == [Resume(inflight[i]) EXCEPT !.cancelled = cancelled]
           IN  \E result \in GetUserResultsFor(waiting) :
               \E saveOk \in SaveFor(~result.err) :
                   LET rq0 == [waiting EXCEPT !.env.user = result,
                                              !.env.saveOk = saveOk]
                   IN  Proceed(i, CallbackGotUser(rq0, result, saveOk), RandError)

LogoutRequest ==
    \E saveOk \in BOOLEAN :
        LET rq0 == [Arrive("Logout", "", "", DirectRequest) EXCEPT !.env.saveOk = saveOk]
            rq == Logout(rq0, saveOk)
        IN  /\ last' = rq
            /\ cookie' = Browser(cookie, rq.setCookie)
            /\ UNCHANGED <<service, call, randReads, inflight>>

\* A request for a protected route.
GateRequest ==
    LET rq == AuthMiddleware(Arrive("Gate", "", "", DirectRequest))
    IN  /\ last' = rq
        /\ cookie' = Browser(cookie, rq.setCookie)
        /\ UNCHANGED <<service, call, randReads, inflight>>

Next ==
    \/ LoginRequest
    \/ CallbackRequest
    \/ ExchangeReturns
    \/ GetUserReturns
    \/ LogoutRequest
    \/ GateRequest

Spec == Init /\ [][Next]_vars

----------------------------------------------------------------------------
(* The package's functions called one at a time: a program constructs a    *)
(* service with NewService and asks it for the callback URL of requests.   *)
(* call holds the last call, its arguments and what it returned.           *)

\* Base URLs given to NewService, each with what a reader of the URL takes
\* from it: whether it is a URL at all, its scheme and host, and the callback
\* URL under it.
BaseURL(raw, valid, scheme, host, callback) ==
    [raw |-> raw, valid |-> valid, scheme |-> scheme, host |-> host, callback |-> callback]

BaseURLs ==
    { BaseURL("http://localhost:8080", TRUE, "http", "localhost:8080",
              "http://localhost:8080/auth/google/callback"),
      BaseURL("HTTPS://example.com/app", TRUE, "https", "example.com",
              "https://example.com/auth/google/callback"),
      BaseURL("//example.org", TRUE, "", "example.org",
              "//example.org/auth/google/callback"),
      BaseURL("", TRUE, "", "", "/auth/google/callback"),
      BaseURL(":8080", FALSE, "", "", ""),
      BaseURL("http://exa mple.com", FALSE, "", "", ""),
      BaseURL("http://example.com:port", FALSE, "", "", "") }

BaseURLOf(raw) == CHOOSE b \in BaseURLs : b.raw = raw

\* Option lists given to NewService, each with the logout destination it
\* names: "" when it names none.
Options(list, names) == [list |-> list, names |-> names]

OptionInputs ==
    { Options(<<>>, ""),
      Options(<<WithLogoutRedirectURL("/landing")>>, "/landing"),
      Options(<<WithLogoutRedirectURL("  /landing\t")>>, "/landing"),
      Options(<<WithLogoutRedirectURL("")>>, ""),
      Options(<<WithLogoutRedirectURL(" \t ")>>, ""),
      Options(<<NilOption>>, ""),
      Options(<<NilOption, WithLogoutRedirectURL("/bye"), WithLogoutRedirectURL(" ")>>,
              "/bye") }

OptionsOf(list) == CHOOSE o \in OptionInputs : o.list = list

\* The calls of NewService: every base URL with and without credentials,
\* every option list and every scope list.
ConstructInputs ==
    {NewServiceInput(id, secret, b.raw, <<>>, <<>>) :
        id \in {"", "id"}, secret \in {"", "secret"}, b \in BaseURLs}
    \cup {NewServiceInput("id", "secret", "http://localhost:8080", <<>>, o.list) :
            o \in OptionInputs}
    \cup {NewServiceInput("id", "secret", "http://localhost:8080", sc, <<>>) :
            sc \in ScopeInputs}

\* Header values, each with the value a proxy meant by it.
HeaderValue(raw, value) == [raw |-> raw, value |-> value]

Forwarded(raw, proto, host) == [raw |-> raw, proto |-> proto, host |-> host]

ForwardedInputs ==
    { Forwarded("", "", ""),
      Forwarded("proto=https; host=forwarded.example", "https", "forwarded.example"),
      Forwarded("for=192.0.2.1;host=\"fwd.example:8443\", for=198.51.100.2;proto=http",
                "http", "fwd.example:8443"),
      Forwarded("for=192.0.2.1, Proto=https", "https", ""),
      Forwarded("proto=\"\";host=\"\", PROTO=\"HTTPS\"; HOST= \"Fwd.Example\" ",
                "https", "Fwd.Example"),
      Forwarded("proto=http, host=second.example;proto=https", "http", "second.example") }

ForwardedProtoInputs ==
    { HeaderValue("", ""), HeaderValue("https", "https"), HeaderValue("http", "http"),
      HeaderValue(" , https, http", "https") }

ForwardedSchemeInputs == {HeaderValue("", ""), HeaderValue("http", "http")}

ForwardedHostInputs == {HeaderValue("", ""), HeaderValue(" proxy.example , internal", "proxy.example")}

ForwardedPortInputs == {HeaderValue("", ""), HeaderValue("8443", "8443"), HeaderValue(" , ", "")}

\* Host headers, each with whether it names a port.
HostInput(raw, hasPort) == [raw |-> raw, hasPort |-> hasPort]

HostInputs ==
    { HostInput("", FALSE), HostInput("example.com", FALSE),
      HostInput("example.com:8080", TRUE), HostInput("[::1]", FALSE) }

\* request.URL of a server request: no scheme, or the scheme of an
\* absolute-form request target.
RequestURLInputs == {NewURL("", "", "", "/login"), NewURL("http", "", "example.net", "/login")}

Headers(forwarded, proto, scheme, host, port) ==
    [h \in HeaderNames |->
        IF h = headerForwarded THEN forwarded
        ELSE IF h = headerXForwardedProto THEN proto
        ELSE IF h = headerXForwardedScheme THEN scheme
        ELSE IF h = headerXForwardedHost THEN host
        ELSE port]

\* The requests: every combination of the sources of the scheme, with and
\* without a Host; every combination of the sources of host and port; and no
\* request at all.
RequestInputs ==
    {HTTPRequest(Headers(f.raw, p.raw, sc.raw, "", ""), h, tls, u) :
        f \in ForwardedInputs, p \in ForwardedProtoInputs, sc \in ForwardedSchemeInputs,
        h \in {"", "example.com"}, tls \in BOOLEAN, u \in RequestURLInputs}
    \cup {HTTPRequest(Headers(f.raw, "", "", xh.raw, xp.raw), h.raw, FALSE,
                      NewURL("", "", "", "/login")) :
            f \in ForwardedInputs, xh \in ForwardedHostInputs, xp \in ForwardedPortInputs,
            h \in HostInputs}
    \cup {NilRequest}

\* The requests a service is asked about: all of them for the services that
\* differ in their base URL, two of them for the others.
RequestsFor(in) ==
    IF in.clientID # "" /\ in.clientSecret # "" /\ in.scopes = <<>> /\ in.options = <<>>
    THEN RequestInputs
    ELSE {NilRequest,
          HTTPRequest(Headers("", "https", "", "", "8443"), "example.com", FALSE,
                      NewURL("", "", "", "/login"))}

\* A program's run: it is to construct a service from args and to ask it
\* for the callback URL of request.
InitService ==
    /\ service = NilService
    /\ \E in \in ConstructInputs :
       \E request \in RequestsFor(in) :
           call = Call("main", in, request, <<>>)
    /\ cookie = EmptyValues
    /\ randReads = 0
    /\ inflight = <<>>
    /\ last = NoRequest

\* The program calls NewService and keeps the service it returns.
ConstructService ==
    /\ call.op = "main"
    /\ call' = [call EXCEPT !.op = "NewService", !.result = NewServiceOf(call.args)]
    /\ service' = call'.result.service
    /\ UNCHANGED <<cookie, randReads, inflight, last>>

\* The service is asked for the callback URL of the request.
ResolveRedirect ==
    /\ call.op = "NewService"
    /\ ~service.nil
    /\ call' = [call EXCEPT !.op = "redirectURLForRequest",
                            !.result = redirectURLForRequest(service, call.request)]
    /\ UNCHANGED <<service, cookie, randReads, inflight, last>>

NextService ==
    \/ ConstructService
    \/ ResolveRedirect

SpecService == InitService /\ [][NextService]_vars

----------------------------------------------------------------------------
(* Vocabulary of the properties. *)

\* Every request the state holds: the one that completed last, those waiting.
Requests == {last} \cup {inflight[i] : i \in 1..Len(inflight)}

Did(rq, event) == \E i \in 1..Len(rq.log) : rq.log[i] = event

\* The handler assigned one of these keys in its Values map.
Wrote(rq, keys) == \E k \in keys : Did(rq, "Set:" \o k)

\* The response is a 302 to the login path with exactly error=tag.
RedirectsWithError(rq, tag) ==
    /\ rq.pc = "done"
    /\ rq.resp.code = 302
    /\ rq.resp.location.path = "/login"
    /\ rq.resp.location.query = [error |-> tag]

\* The response is a 302 to the post-login path.
RedirectsToPostLogin(rq) ==
    /\ rq.pc = "done"
    /\ rq.resp.code = 302
    /\ rq.resp.location = [path |-> service.localRedirectURL, query |-> EmptyQuery]

\* The response is a 302 to the provider's authorization endpoint.
RedirectsToProvider(rq) ==
    /\ rq.pc = "done"
    /\ rq.resp.code = 302
    /\ rq.resp.location.path = AuthURL

\* The request's Values map holds the keys of `keys` as the cookie it came
\* with did, and the response sets no cookie.
Untouched(rq, keys) ==
    /\ Restrict(rq.session, keys) = Restrict(rq.sent, keys)
    /\ ~rq.setCookie.set

StoredState(rq) == Has(rq.sent, "oauth_state")

----------------------------------------------------------------------------
(* C1: a Callback whose `state` query value differs from the state stored  *)
(* in the session writes none of the identity keys nor the token key, and  *)
(* answers with a redirect to the login path carrying error=invalid_state. *)

C1_InvalidState ==
    \A rq \in Requests :
        (/\ rq.kind = "Callback"
         /\ StoredState(rq)
         /\ rq.sent["oauth_state"] # rq.state)
        => /\ RedirectsWithError(rq, "invalid_state")
           /\ ~Wrote(rq, ProtectedKeys)
           /\ Untouched(rq, ProtectedKeys)

\* A forged state arrives, with a code, on an authenticated session.
C1_Witness ==
    /\ last.kind = "Callback"
    /\ StoredState(last)
    /\ last.state = "forged"
    /\ last.code = "c1"
    /\ Has(last.sent, "user_email")
    /\ RedirectsWithError(last, "invalid_state")

(* C2: a Callback on a session that holds no stored state is answered with *)
(* a redirect to the login path with error=missing_state whatever its      *)
(* `state` and `code` are, and nothing else happens: no token exchange, no *)
(* profile fetch, no session write.                                        *)

C2_MissingState ==
    \A rq \in Requests :
        (rq.kind = "Callback" /\ ~StoredState(rq))
        => /\ RedirectsWithError(rq, "missing_state")
           /\ rq.log = <<>>
           /\ rq.session = rq.sent
           /\ ~rq.setCookie.set

\* After a logout, a Callback carries a state that was issued, and a code.
C2_Witness ==
    /\ last.kind = "Callback"
    /\ ~StoredState(last)
    /\ last.state = "s1"
    /\ last.code = "c1"
    /\ RedirectsWithError(last, "missing_state")

(* C3: Callback's outcome is decided by the first failing checkpoint in    *)
(* the order missing_state, invalid_state, missing_code,                   *)
(* token_exchange_failed: the token endpoint is called only when a stored  *)
(* state exists, equals the query `state`, and the code is non-empty; a    *)
(* matching state with an empty code yields missing_code, and a failed     *)
(* exchange yields token_exchange_failed.                                  *)

StateMatches(rq) == StoredState(rq) /\ rq.sent["oauth_state"] = rq.state

C3_CheckpointOrder ==
    \A rq \in Requests :
        rq.kind = "Callback" =>
            /\ ~StoredState(rq) => RedirectsWithError(rq, "missing_state")
            /\ (StoredState(rq) /\ ~StateMatches(rq))
                   => RedirectsWithError(rq, "invalid_state")
            /\ (StateMatches(rq) /\ rq.code = "")
                   => RedirectsWithError(rq, "missing_code")
            /\ Did(rq, "Exchange")
                   <=> (StateMatches(rq) /\ rq.code # "")
            /\ (Did(rq, "Exchange") /\ rq.pc = "done" /\ rq.env.exchange.err)
                   => RedirectsWithError(rq, "token_exchange_failed")

\* The exchange was made and failed.
C3_Witness ==
    /\ last.kind = "Callback"
    /\ StateMatches(last)
    /\ last.code = "c1"
    /\ last.log = <<"Exchange">>
    /\ last.env.exchange.err
    /\ RedirectsWithError(last, "token_exchange_failed")

(* C4: a successful Callback of a service configured with only non-profile *)
(* scopes stores the serialized OAuth token and the fixed sentinel under   *)
(* the email key, fetches no profile, sets neither the name key nor the    *)
(* picture key, and redirects to the post-login path.                      *)

APIOnlyService ==
    \A i \in 1..Len(service.config.Scopes) :
        service.config.Scopes[i] \notin {"email", "profile"}

C4_APIOnlySuccess ==
    \A rq \in Requests :
        (rq.kind = "Callback" /\ APIOnlyService /\ RedirectsToPostLogin(rq))
        => /\ rq.setCookie.set
           /\ rq.setCookie.values = rq.session
           /\ rq.session["oauth_token"] = Marshal(rq.env.exchange.token)
           /\ rq.session["user_email"] = "authenticated_api_user"
           /\ ~Did(rq, "GetUser")
           /\ ~Wrote(rq, {"user_name", "user_picture"})
           /\ ~Has(rq.session, "user_name")
           /\ ~Has(rq.session, "user_picture")

C4_Witness ==
    /\ last.kind = "Callback"
    /\ APIOnlyService
    /\ RedirectsToPostLogin(last)
    /\ cookie["user_email"] = "authenticated_api_user"
    /\ cookie["oauth_token"] =
         "{\"access_token\":\"abc\",\"token_type\":\"bearer\",\"refresh_token\":\"rtok\"}"

(* C5: a Callback with matching state, a non-empty code, a token that      *)
(* carries a refresh token, profile-bearing scopes and a successful        *)
(* profile fetch stores the fetched email, name and picture and the        *)
(* serialized token in the session, saves the session, and redirects (302) *)
(* to the configured post-login path.                                      *)

ProfileService ==
    \E i \in 1..Len(service.config.Scopes) :
        service.config.Scopes[i] \in {"email", "profile"}

\* The Callback passed every checkpoint up to the profile fetch, and the
\* fetch answered with a profile.
ProfileFetched(rq) ==
    /\ rq.kind = "Callback"
    /\ rq.pc = "done"
    /\ StateMatches(rq)
    /\ rq.code # ""
    /\ ~rq.env.exchange.err
    /\ rq.env.exchange.token.RefreshToken # ""
    /\ ProfileService
    /\ ~rq.env.user.err

StoresProfile(rq) ==
    /\ rq.session["user_email"] = rq.env.user.user.Email
    /\ rq.session["user_name"] = rq.env.user.user.Name
    /\ rq.session["user_picture"] = rq.env.user.user.Picture
    /\ rq.session["oauth_token"] = Marshal(rq.env.exchange.token)

\* The claim as stated.
C5_Original ==
    \A rq \in Requests :
        ProfileFetched(rq)
        => /\ StoresProfile(rq)
           /\ rq.setCookie.set
           /\ rq.setCookie.values = rq.session
           /\ RedirectsToPostLogin(rq)

\* Amended: ... provided webSession.Save succeeds; when it fails the
\* response is the redirect with error=session_save_failed and no cookie is
\* set.
C5_ProfileSuccess ==
    \A rq \in Requests :
        ProfileFetched(rq)
        => /\ Did(rq, "GetUser")
           /\ StoresProfile(rq)
           /\ IF rq.env.saveOk
              THEN /\ rq.setCookie.set
                   /\ rq.setCookie.values = rq.session
                   /\ RedirectsToPostLogin(rq)
              ELSE /\ ~rq.setCookie.set
                   /\ RedirectsWithError(rq, "session_save_failed")

C5_Witness ==
    /\ ProfileFetched(last)
    /\ RedirectsToPostLogin(last)
    /\ cookie["user_email"] = "e@example.com"
    /\ cookie["user_name"] = "tester"
    /\ cookie["user_picture"] = "pic"
    /\ Has(cookie, "oauth_token")

(* C6: in every session state reachable after a Callback has succeeded,    *)
(* the session holds the OAuth token key whenever it holds the             *)
(* user-identity key: the token is stored in the profile branch and in the *)
(* sentinel branch alike.                                                  *)

TokenWithIdentity(values) ==
    (\E k \in IdentityKeys : Has(values, k)) => Has(values, "oauth_token")

C6_TokenWithIdentity ==
    /\ TokenWithIdentity(cookie)
    /\ \A rq \in Requests :
           (rq.kind = "Callback" /\ RedirectsToPostLogin(rq))
           => /\ Has(rq.setCookie.values, "user_email")
              /\ Has(rq.setCookie.values, "oauth_token")

\* A later Login of the authenticated browser has rewritten the cookie.
C6_Witness ==
    /\ last.kind = "Login"
    /\ last.setCookie.set
    /\ Has(cookie, "user_email")
    /\ Has(cookie, "oauth_token")

(* C7: on every Callback path that ends in a redirect-with-error           *)
(* (missing_state, invalid_state, missing_code, token_exchange_failed,     *)
(* user_info_failed, session_save_failed) the session's identity keys and  *)
(* token key have the same values after the request as before it; no key   *)
(* is written before the checkpoint that triggers the redirect.            *)

ErrorTags ==
    {"missing_state", "invalid_state", "missing_code",
     "token_exchange_failed", "user_info_failed", "session_save_failed"}

EndsInErrorRedirect(rq) ==
    rq.kind = "Callback" /\ \E tag \in ErrorTags : RedirectsWithError(rq, tag)

\* The claim as stated.
C7_Original ==
    \A rq \in Requests :
        EndsInErrorRedirect(rq)
        => /\ ~Wrote(rq, ProtectedKeys)
           /\ Untouched(rq, ProtectedKeys)

\* Amended: no error redirect sets a cookie, so the session the browser
\* holds keeps its keys; and on every error path but session_save_failed no
\* key is written to the request's Values map either.  On
\* session_save_failed the map has been written (the token key always)
\* before the save that fails.
C7_ErrorPathsFrame ==
    \A rq \in Requests :
        EndsInErrorRedirect(rq)
        => /\ ~rq.setCookie.set
           /\ IF RedirectsWithError(rq, "session_save_failed")
              THEN Did(rq, "Set:oauth_token")
              ELSE /\ ~Wrote(rq, ProtectedKeys \cup {"oauth_state"})
                   /\ rq.session = rq.sent

\* The profile fetch fails on an authenticated session.
C7_Witness ==
    /\ RedirectsWithError(last, "user_info_failed")
    /\ Has(last.sent, "user_email")
    /\ cookie = last.sent

(* C8: when the token exchange succeeds but the token has an empty refresh *)
(* token, Callback re-invokes Login instead of failing: a fresh state      *)
(* replaces the stored one, the response is a 302 to the provider's        *)
(* authorization URL with prompt=consent, no error redirect is produced,   *)
(* and no identity or token key is written.                                *)

NoRefreshToken(rq) ==
    /\ rq.kind = "Callback"
    /\ rq.pc = "done"
    /\ Did(rq, "Exchange")
    /\ ~rq.env.exchange.err
    /\ rq.env.exchange.token.RefreshToken = ""

FreshStateIssued(rq) ==
    /\ RedirectsToProvider(rq)
    /\ rq.resp.location.query["prompt"] = "consent"
    /\ rq.setCookie.set
    /\ rq.setCookie.values["oauth_state"] = rq.resp.location.query["state"]
    /\ rq.setCookie.values["oauth_state"] # rq.sent["oauth_state"]

\* The claim as stated.
C8_Original ==
    \A rq \in Requests :
        NoRefreshToken(rq)
        => /\ FreshStateIssued(rq)
           /\ ~Wrote(rq, ProtectedKeys)

\* Amended: ... the response is that of the re-invoked Login: the 302 to
\* the provider with a fresh state stored when the state is generated and
\* the session saved, and otherwise Login's 500 with no cookie set; never
\* an error redirect, and no identity or token key is written.
C8_ReLogin ==
    \A rq \in Requests :
        NoRefreshToken(rq)
        => /\ Did(rq, "GenerateState")
           /\ ~Did(rq, "GetUser")
           /\ ~Wrote(rq, ProtectedKeys)
           /\ Restrict(rq.session, ProtectedKeys) = Restrict(rq.sent, ProtectedKeys)
           /\ ~EndsInErrorRedirect(rq)
           /\ IF ~rq.env.rnd.err /\ rq.env.saveOk
              THEN FreshStateIssued(rq)
              ELSE rq.resp.code = 500 /\ ~rq.setCookie.set

C8_Witness ==
    /\ NoRefreshToken(last)
    /\ FreshStateIssued(last)
    /\ last.sent["oauth_state"] = "s1"
    /\ cookie["oauth_state"] = "s2"

(* C9: every successful Login generates a state, stores it under the       *)
(* reserved session key and saves the session (emitting Set-Cookie) before *)
(* redirecting, and the 302 to the provider carries exactly that stored    *)
(* state together with access_type=offline and prompt=consent.             *)

\* Login ran in the request (as the handler, or called by Callback).
RanLogin(rq) == rq.pc = "done" /\ Did(rq, "GenerateState")

Ordered(rq, events) ==
    /\ Len(rq.log) >= Len(events)
    /\ SubSeq(rq.log, Len(rq.log) - Len(events) + 1, Len(rq.log)) = events

C9_LoginRedirect ==
    \A rq \in Requests :
        RanLogin(rq)
        => /\ (~rq.env.rnd.err /\ rq.env.saveOk) <=> RedirectsToProvider(rq)
           /\ RedirectsToProvider(rq)
              => /\ Ordered(rq, <<"GenerateState", "Set:oauth_state", "Save">>)
                 /\ rq.setCookie.set
                 /\ rq.setCookie.values["oauth_state"] # ""
                 /\ rq.resp.location.query["state"] =
                        rq.setCookie.values["oauth_state"]
                 /\ rq.resp.location.query["access_type"] = "offline"
                 /\ rq.resp.location.query["prompt"] = "consent"

C9_Witness ==
    /\ last.kind = "Login"
    /\ RedirectsToProvider(last)
    /\ last.resp.location.query["state"] = "s2"
    /\ cookie["oauth_state"] = "s2"

(* C10: if state generation fails or the session save fails during Login,  *)
(* the response is HTTP 500 and no redirect to the provider is issued.     *)

C10_LoginFailure ==
    \A rq \in Requests :
        (RanLogin(rq) /\ (rq.env.rnd.err \/ ~rq.env.saveOk))
        => /\ rq.resp.code = 500
           /\ rq.resp.location.path = ""
           /\ ~RedirectsToProvider(rq)
           /\ ~rq.setCookie.set

\* The save fails after the state was generated and written.
C10_Witness ==
    /\ last.kind = "Login"
    /\ ~last.env.rnd.err
    /\ ~last.env.saveOk
    /\ Did(last, "Set:oauth_state")
    /\ last.resp.code = 500

\* The random source fails.
C10_WitnessEntropy ==
    /\ last.kind = "Login"
    /\ last.env.rnd.err
    /\ last.log = <<"GenerateState">>
    /\ last.resp.code = 500

(* C11: a Logout that saves the session redirects to the logout            *)
(* destination the service was configured with (the login path unless      *)
(* WithLogoutRedirectURL named another).                                   *)

RanLogout(rq) == rq.kind = "Logout" /\ rq.pc = "done"

C11_LogoutDestination ==
    \A rq \in Requests :
        (RanLogout(rq) /\ rq.resp.code = 302)
        => rq.resp.location = [path |-> service.logoutRedirectURL, query |-> EmptyQuery]

(* C12, as claimed: from every prior session state and in every outcome,   *)
(* Logout forces the session's max-age negative and answers with a         *)
(* redirect that expires the session.                                      *)

Constructed == call.op # "main" /\ ~service.nil

C13_LogoutRedirectOption ==
    Constructed
    => LET names == OptionsOf(call.args.options).names
       IN  /\ names = "" => service.logoutRedirectURL = "/login"
           /\ names # "" => service.logoutRedirectURL = names
           /\ call.op = "NewService" => service = call.result.service

\* An option whose value is padded with white space.
C13_Witness ==
    /\ call.op = "NewService"
    /\ call.args.options = <<WithLogoutRedirectURL("  /landing\t")>>
    /\ service.logoutRedirectURL = "/landing"

\* A nil option, an option that names a destination and a blank one.
C13_WitnessBlank ==
    /\ call.op = "NewService"
    /\ Len(call.args.options) = 3
    /\ service.logoutRedirectURL = "/bye"

(* C19: NewService returns an error and no service when the client id is   *)
(* empty, when the client secret is empty, or when the public base URL is  *)
(* not a valid URL; with valid inputs it returns a service and no error.   *)

C19_ConstructionErrors ==
    call.op = "NewService"
    => LET invalid == \/ call.args.clientID = ""
                      \/ call.args.clientSecret = ""
                      \/ ~BaseURLOf(call.args.googleOAuthBase).valid
       IN  /\ invalid => /\ call.result.service.nil
                         /\ call.result.err # ""
                         /\ service.nil
           /\ ~invalid => /\ ~call.result.service.nil
                          /\ call.result.err = ""
                          /\ call.result.service.config.ClientID = call.args.clientID
                          /\ call.result.service.config.ClientSecret = call.args.clientSecret

\* Only the secret is missing.
C19_Witness ==
    /\ call.op = "NewService"
    /\ call.args.clientID = "id"
    /\ call.args.clientSecret = ""
    /\ call.args.googleOAuthBase = "http://localhost:8080"
    /\ call.result.service.nil
    /\ call.result.err = "missing Google OAuth credentials"

\* Only the base URL is wrong.
C19_WitnessBaseURL ==
    /\ call.op = "NewService"
    /\ call.args.clientID = "id"
    /\ call.args.clientSecret = "secret"
    /\ call.args.googleOAuthBase = "http://exa mple.com"
    /\ call.result.err = "invalid Google OAuth base URL"

(* C20: when NewService is given an empty scope list the service requests  *)
(* exactly the default scopes profile and email, so a later Callback on    *)
(* that service that obtains a token with a refresh token fetches the      *)
(* profile; a non-empty list is used as given.                             *)

\* The Callback got a token it goes on with.
GotToken(rq) ==
    /\ rq.kind = "Callback"
    /\ rq.pc \in {"getuser", "done"}
    /\ Did(rq, "Exchange")
    /\ ~rq.env.exchange.err
    /\ rq.env.exchange.token.RefreshToken # ""

C20_DefaultScopes ==
    /\ call.op = "NewService"
    /\ service = call.result.service
    /\ call.args.scopes = <<>> => service.config.Scopes = <<"profile", "email">>
    /\ call.args.scopes # <<>> => service.config.Scopes = call.args.scopes
    /\ \A rq \in Requests :
           (call.args.scopes = <<>> /\ GotToken(rq))
           => /\ Did(rq, "GetUser")
              /\ ~Did(rq, "Set:user_email") \/ rq.session["user_email"] # "authenticated_api_user"

\* A Callback on a service made with no scopes has fetched the profile.
C20_Witness ==
    /\ call.args.scopes = <<>>
    /\ GotToken(last)
    /\ Did(last, "GetUser")
    /\ RedirectsToPostLogin(last)
    /\ cookie["user_email"] = "e@example.com"

(* C14, as claimed: for every combination of forwarding headers, the       *)
(* callback URL's scheme is the first non-empty of: Forwarded proto,       *)
(* X-Forwarded-Proto (first non-empty comma token), X-Forwarded-Scheme,    *)
(* "https" when the request itself is TLS, the request URL scheme, the     *)
(* configured base URL scheme, and finally "https".                        *)

\* The service was asked for the callback URL of a request.
Resolved == call.op = "redirectURLForRequest" /\ ~call.request.nil

ValueOf(inputs, raw) == (CHOOSE v \in inputs : v.raw = raw).value

ForwardedOf(request) ==
    CHOOSE f \in ForwardedInputs : f.raw = request.Header["Forwarded"]

\* The scheme the sources of the request name, in the order of the claim.
ExpectedScheme ==
    FirstNonEmpty(<<ForwardedOf(call.request).proto,
                    ValueOf(ForwardedProtoInputs, call.request.Header["X-Forwarded-Proto"]),
                    ValueOf(ForwardedSchemeInputs, call.request.Header["X-Forwarded-Scheme"]),
                    IF call.request.TLS THEN "https" ELSE "",
                    call.request.URL.Scheme,
                    BaseURLOf(call.args.googleOAuthBase).scheme,
                    "https">>)

\* The host the sources of the request name, in the order of C15.
ExpectedHost ==
    FirstNonEmpty(<<ForwardedOf(call.request).host,
                    ValueOf(ForwardedHostInputs, call.request.Header["X-Forwarded-Host"]),
                    call.request.Host,
                    BaseURLOf(call.args.googleOAuthBase).host>>)

ExpectedPort == ValueOf(ForwardedPortInputs, call.request.Header["X-Forwarded-Port"])

\* Scheme and host of the callback URL that was returned.
ResultScheme == Parse(call.result).url.Scheme

ResultHost == Parse(call.result).url.Host

C14_Original == Resolved => ResultScheme = ExpectedScheme

(* C14: whenever some source of the host (Forwarded host,                  *)
(* X-Forwarded-Host, the Host header, the base URL host) is non-empty, the *)
(* callback URL's scheme is the first non-empty of: Forwarded proto,       *)
(* X-Forwarded-Proto (first non-empty comma token), X-Forwarded-Scheme,    *)
(* "https" when the request is TLS, the request URL scheme, the base URL   *)
(* scheme, and finally "https"; when every source of the host is empty the *)
(* callback URL is the one computed at construction, whatever the sources  *)
(* of the scheme say.                                                      *)

C14_SchemePriority ==
    Resolved
    => /\ ExpectedHost # "" => ResultScheme = ExpectedScheme
       /\ ExpectedHost = "" => call.result = service.config.RedirectURL

\* X-Forwarded-Proto: https with Host example.com on a plain-HTTP request.
C14_Witness ==
    /\ Resolved
    /\ call.request.Header = Headers("", "https", "", "", "")
    /\ call.request.Host = "example.com"
    /\ ~call.request.TLS
    /\ call.args.googleOAuthBase = "http://localhost:8080"
    /\ call.result = "https://example.com/auth/google/callback"

\* X-Forwarded-Scheme decides: no Forwarded proto, no X-Forwarded-Proto, and
\* a TLS request.
C14_WitnessForwardedScheme ==
    /\ Resolved
    /\ call.request.Header = Headers("", "", "http", "", "")
    /\ call.request.TLS
    /\ call.result = "http://example.com/auth/google/callback"

(* C15: for every request the callback URL's host is the first non-empty   *)
(* of: Forwarded host, X-Forwarded-Host (first non-empty comma token), the *)
(* request's Host header, the configured base URL host (followed by the    *)
(* forwarded port, if one is appended); a Forwarded header carrying host=  *)
(* overrides a Host header set with it.                                    *)

C15_HostPriority ==
    Resolved
    => /\ ResultHost \in {ExpectedHost, ExpectedHost \o ":" \o ExpectedPort}
       /\ ExpectedPort = "" => ResultHost = ExpectedHost
       /\ (ForwardedOf(call.request).host # "" /\ ExpectedPort = "")
              => ResultHost = ForwardedOf(call.request).host

\* Forwarded names a host and the request has a Host header.
C15_Witness ==
    /\ Resolved
    /\ call.request.Header["Forwarded"] = "proto=https; host=forwarded.example"
    /\ call.request.Host = "example.com"
    /\ call.result = "https://forwarded.example/auth/google/callback"

(* C16: the X-Forwarded-Port value is appended to the resolved host (as    *)
(* ":port") exactly when the header has a non-empty value and the resolved *)
(* host carries no explicit port; when the host already has a port the     *)
(* forwarded port is ignored, and without the header no port is added.     *)
(* Stated for requests that have a resolved host.                          *)

\* Whether the resolved host names a port.
ExpectedHostHasPort ==
    IF ExpectedHost = call.request.Host /\ ForwardedOf(call.request).host = ""
          /\ ValueOf(ForwardedHostInputs, call.request.Header["X-Forwarded-Host"]) = ""
    THEN (CHOOSE h \in HostInputs : h.raw = call.request.Host).hasPort
    ELSE ExpectedHost \in {"fwd.example:8443", "localhost:8080"}

C16_ForwardedPort ==
    (Resolved /\ ExpectedHost # "")
    => ResultHost = IF ExpectedPort # "" /\ ~ExpectedHostHasPort
                    THEN ExpectedHost \o ":" \o ExpectedPort
                    ELSE ExpectedHost

(* C17: with a nil request the resolved callback URL is exactly the        *)
(* configured base URL resolved against the callback path, equal to the    *)
(* redirect URL computed at construction.                                  *)

C17_NilRequest ==
    (call.op = "redirectURLForRequest" /\ call.request.nil)
    => /\ call.result = service.config.RedirectURL
       /\ call.result = BaseURLOf(call.args.googleOAuthBase).callback

\* A base URL without a scheme: none is made up for it.
C17_Witness ==
    /\ call.op = "redirectURLForRequest"
    /\ call.request.nil
    /\ call.args.googleOAuthBase = "//example.org"
    /\ call.result = "//example.org/auth/google/callback"

(* C18: AuthMiddleware invokes the downstream handler exactly when the     *)
(* session's identity key is present and non-empty, passing the request    *)
(* through unmodified; otherwise it redirects to the login path with no    *)
(* query parameters and does not invoke the downstream handler.  A session *)
(* holding the sentinel identity written by an API-only Callback passes.   *)

RanGate(rq) == rq.kind = "Gate" /\ rq.pc = "done"

HasIdentity(values) == Has(values, "user_email") /\ values["user_email"] # ""

C18_AuthGate ==
    \A rq \in Requests :
        RanGate(rq)
        => /\ Did(rq, "Next") <=> HasIdentity(rq.sent)
           /\ Did(rq, "Next")
              => /\ rq.session = rq.sent
                 /\ ~rq.setCookie.set
                 /\ rq.resp.code = 0
           /\ ~Did(rq, "Next")
              => /\ rq.resp.code = 302
                 /\ rq.resp.location = [path |-> "/login", query |-> EmptyQuery]
                 /\ ~rq.setCookie.set
           /\ (APIOnlyService /\ Has(rq.sent, "user_email") /\ Has(rq.sent, "oauth_token"))
              => Did(rq, "Next")

\* The session an API-only Callback wrote passes the gate.
C18_Witness ==
    /\ RanGate(last)
    /\ APIOnlyService
    /\ Has(last.sent, "user_email")
    /\ last.sent["user_email"] = "authenticated_api_user"
    /\ Did(last, "Next")

\* A profile without an email address does not pass.
C18_WitnessBlocked ==
    /\ RanGate(last)
    /\ Has(last.sent, "user_email")
    /\ last.sent["user_email"] = ""
    /\ last.resp.code = 302

(* C21: two consecutive successful GenerateState calls never return equal  *)
(* values, and a failure of the random source yields an error and an empty *)
(* state, never a degraded or fixed state value: the request that met the  *)
(* failure stores no state and sends none.                                 *)

C21_GenerateState ==
    /\ GenerateState(RandError) = [state |-> "", err |-> TRUE]
    /\ \A rq \in Requests :
           RanLogin(rq)
           => /\ rq.env.rnd.err
                 => /\ ~Did(rq, "Set:oauth_state")
                    /\ rq.session = rq.sent
                    /\ rq.resp.code = 500
                    /\ rq.resp.location.query = EmptyQuery
              /\ ~rq.env.rnd.err
                 => /\ Did(rq, "Set:oauth_state")
                    /\ rq.session["oauth_state"] # ""
                    /\ Has(rq.sent, "oauth_state")
                       => rq.session["oauth_state"] # rq.sent["oauth_state"]

\* A Login follows a Login: the states of the two calls differ.
C21_Witness ==
    /\ last.kind = "Login"
    /\ Has(last.sent, "oauth_state")
    /\ last.sent["oauth_state"] = "s1"
    /\ Did(last, "Set:oauth_state")
    /\ last.session["oauth_state"] = "s2"

(* C22: building the per-request authorization configuration never changes *)
(* the service's shared OAuth configuration: under any interleaving of     *)
(* Login and Callback requests with different forwarding headers, the      *)
(* shared configuration's redirect URL, client id, secret, scopes and      *)
(* endpoint keep their construction-time values, and each request's        *)
(* configuration carries the redirect URL resolved from that request's own *)
(* headers.                                                                *)

\* The callback URL of a request the handlers receive, as its headers say.
OwnRedirectURL(rq) ==
    IF rq.http.Header["X-Forwarded-Proto"] = "https"
    THEN "https://" \o rq.http.Host \o "/auth/google/callback"
    ELSE "http://" \o rq.http.Host \o "/auth/google/callback"

C22_SharedConfig ==
    /\ service = call.result.service
    /\ service.config.RedirectURL = "http://localhost:8080/auth/google/callback"
    /\ \A rq \in Requests :
           rq.config # NoConfig
           => /\ rq.config.RedirectURL = OwnRedirectURL(rq)
              /\ rq.config.ClientID = call.args.clientID
              /\ rq.config.ClientSecret = call.args.clientSecret
              /\ rq.config.Scopes = call.result.service.config.Scopes
              /\ rq.config.Endpoint = call.result.service.config.Endpoint
              /\ rq.shared = call.result.service.config
              /\ RedirectsToProvider(rq)
                 => rq.resp.location.query["redirect_uri"] = OwnRedirectURL(rq)

\* A Login that reached the server directly has run while a Callback that
\* came through the proxy waits for the token endpoint.
C22_Witness ==
    /\ Len(inflight) = 1
    /\ inflight[1].pc = "exchange"
    /\ inflight[1].state = "s1"
    /\ inflight[1].config.RedirectURL = "https://example.com/auth/google/callback"
    /\ last.kind = "Login"
    /\ last.http = DirectRequest
    /\ RedirectsToProvider(last)
    /\ last.resp.location.query["state"] = "s2"
    /\ last.config.RedirectURL = "http://localhost:8080/auth/google/callback"

(* C23: the authorization state is single-use: once a Callback has passed  *)
(* state validation with a stored state value, a later Callback on the     *)
(* same session presenting that same state value does not pass state       *)
(* validation again.                                                       *)

\* The Callback got past the comparison of the states and the code check.
PassedValidation(rq) == rq.kind = "Callback" /\ Did(rq, "Exchange")

C23_SingleUse ==
    \A a, b \in Requests :
        (PassedValidation(a) /\ PassedValidation(b) /\ a # b) => a.state # b.state

(* C24, as claimed: after two Login invocations on the same session only   *)
(* the state issued by the later Login passes Callback validation: the     *)
(* state the session holds is only ever replaced by a newer one, or        *)
(* removed.                                                                *)

\* The n for which a stored state is the n-th the random source gave.
IssueOrder(state) == CHOOSE n \in 0..(MaxStates + 1) : state = EncodeToString(n)

IssuedState(state) == \E n \in 1..randReads : state = EncodeToString(n)

IdentityOnlyByCallback ==
    \A rq \in Requests :
        Wrote(rq, IdentityKeys)
        => /\ rq.kind = "Callback"
           /\ StateMatches(rq)
           /\ IssuedState(rq.state)

RedirectedToLogin(rq) ==
    /\ ~Did(rq, "Next")
    /\ rq.resp.code = 302
    /\ rq.resp.location = [path |-> "/login", query |-> EmptyQuery]

MixedScopes ==
    /\ ~APIOnlyService
    /\ \E i \in 1..Len(service.config.Scopes) :
           service.config.Scopes[i] \notin {"email", "profile"}

C26_ProfileFetch ==
    \A rq \in Requests :
        /\ GotToken(rq) => (Did(rq, "GetUser") <=> ~APIOnlyService)
        /\ Did(rq, "GetUser") => GotToken(rq)
        /\ (rq.pc = "done" /\ Did(rq, "GetUser") /\ rq.env.user.err)
           => /\ RedirectsWithError(rq, "user_info_failed")
              /\ ~Wrote(rq, IdentityKeys \cup {"oauth_token"})
              /\ ~rq.setCookie.set
              /\ rq.session = rq.sent

\* With mixed scopes the profile was fetched and the fetch failed.
C26_Witness ==
    /\ MixedScopes
    /\ last.kind = "Callback"
    /\ Did(last, "GetUser")
    /\ last.env.user.err
    /\ RedirectsWithError(last, "user_info_failed")

(* C27: only construction-time errors and entropy errors are surfaced as   *)
(* hard failures (error return from NewService, or a 500 response); every  *)
(* other failure of Login, Callback or Logout, including a session         *)
(* persistence failure, ends in a redirect that carries an error code from *)
(* the fixed set and never raw error text.                                 *)

ErrorCodes ==
    {"missing_state", "invalid_state", "missing_code", "token_exchange_failed",
     "user_info_failed", "session_save_failed"}

\* The random source failed under the handler.
EntropyError(rq) == Did(rq, "GenerateState") /\ rq.env.rnd.err

C27_ErrorPolicy ==
    \A rq \in Requests :
        (rq.pc = "done" /\ rq.kind \in {"Login", "Callback", "Logout"})
        => /\ rq.resp.code = 500 => EntropyError(rq)
           /\ Did(rq, "SaveFailed") => \E tag \in ErrorCodes : RedirectsWithError(rq, tag)
           /\ rq.resp.text # webSessionSaveError

(* C28: both outbound network calls of Callback, the token exchange and    *)
(* the profile fetch, run under the request's cancellation context: if the *)
(* request is cancelled while either call is in flight, that call is       *)
(* aborted and Callback does not go on to write identity or token keys.    *)

C28_Cancellation ==
    \A rq \in Requests :
        (rq.kind = "Callback" /\ rq.cancelled)
        => /\ ~Wrote(rq, IdentityKeys \cup {"oauth_token"})
           /\ ~rq.setCookie.set
           /\ (rq.pc = "done" /\ Did(rq, "GetUser")) => rq.env.user.err

(* C29: from a Forwarded header made of comma-separated groups of          *)
(* semicolon-separated key=value pairs, proto and host are each taken,     *)
(* independently of one another, from the first group (left to right) that *)
(* defines that key with a non-empty value; the key match is               *)
(* case-insensitive, surrounding double quotes and whitespace are          *)
(* stripped, an empty or quoted-empty value is skipped, and the extracted  *)
(* scheme is lower-cased while the host is kept as written.                *)

\* The Forwarded header of the request names a host source.
HostResolved == Resolved /\ ExpectedHost # ""

C29_Forwarded ==
    Resolved
    => LET f == ForwardedOf(call.request)
           raw == call.request.Header["Forwarded"]
       IN  /\ extractForwardedDirective(raw, "host=") = f.host
           /\ f.proto = "" <=> extractForwardedDirective(raw, "proto=") = ""
           /\ (f.proto # "" /\ HostResolved) => HasPrefix(call.result, f.proto \o "://")
           /\ f.host # "" => HasPrefix(ResultHost, f.host)
           /\ (f.proto # "" /\ f.host # "")
              => HasPrefix(call.result, f.proto \o "://" \o f.host)

\* Quoted-empty values are passed over; a later group gives the scheme in
\* capitals and the host in quotes after a space.
C29_Witness ==
    /\ Resolved
    /\ call.request.Header["Forwarded"]
           = "proto=\"\";host=\"\", PROTO=\"HTTPS\"; HOST= \"Fwd.Example\" "
    /\ call.request.Header["X-Forwarded-Port"] = ""
    /\ call.result = "https://Fwd.Example/auth/google/callback"

\* The scheme comes from the first group and the host from the second.
C29_WitnessGroups ==
    /\ Resolved
    /\ call.request.Header["Forwarded"] = "proto=http, host=second.example;proto=https"
    /\ call.request.Header["X-Forwarded-Port"] = ""
    /\ call.result = "http://second.example/auth/google/callback"

(* C30, as claimed: scheme, host and port are resolved independently of    *)
(* each other: for every request, the callback URL is scheme://host[:port] *)
(* plus the callback path, where the scheme is the one chosen by the       *)
(* scheme priority order whatever source supplied the host, including when *)
(* every host source is empty.                                             *)

\* scheme://host[:port] plus the callback path, of the resolved parts.
ExpectedCallbackURLs ==
    { ExpectedScheme \o "://" \o ExpectedHost \o "/auth/google/callback",
      ExpectedScheme \o "://" \o ExpectedHost \o ":" \o ExpectedPort
          \o "/auth/google/callback" }

C30_Original == Resolved => call.result \in ExpectedCallbackURLs

(* C30: for every request with a non-empty host source the callback URL is *)
(* scheme://host[:port] plus the callback path, where the scheme is the    *)
(* one chosen by the scheme priority order whatever source supplied the    *)
(* host; when every host source is empty the resolved scheme and port are  *)
(* dropped and the callback URL is the one computed at construction.       *)

C30_Independent ==
    Resolved
    => /\ ExpectedHost # "" => call.result \in ExpectedCallbackURLs
       /\ (ExpectedHost # "" /\ ExpectedPort = "")
          => call.result = ExpectedScheme \o "://" \o ExpectedHost \o "/auth/google/callback"
       /\ ExpectedHost = ""
          => /\ call.result = service.config.RedirectURL
             /\ call.result = BaseURLOf(call.args.googleOAuthBase).callback

\* Forwarded supplies only the scheme and X-Forwarded-Host the host, on a
\* request that has a Host header of its own.
C30_Witness ==
    /\ Resolved
    /\ call.request.Header["Forwarded"] = "for=192.0.2.1, Proto=https"
    /\ call.request.Header["X-Forwarded-Host"] = " proxy.example , internal"
    /\ call.request.Header["X-Forwarded-Port"] = ""
    /\ call.request.Host = "example.com"
    /\ call.args.googleOAuthBase = "http://localhost:8080"
    /\ call.result = "https://proxy.example/auth/google/callback"

\* Every host source is empty and a header names a scheme.
C30_WitnessNoHost ==
    /\ Resolved
    /\ ExpectedHost = ""
    /\ call.request.Header["X-Forwarded-Proto"] = "https"
    /\ call.result = "/auth/google/callback"

(* C31: Login changes only the reserved state key of the session: identity *)
(* keys and the token key already present (on an authenticated session     *)
(* that starts the flow again, or on the re-login triggered by a missing   *)
(* refresh token) keep their values, in the request's session, in the      *)
(* cookie the response sets and in the browser, until a later successful   *)
(* Callback overwrites them.                                               *)

\* Every key of a session but the reserved state key.
OtherKeys(values) == DOMAIN values \ {"oauth_state"}

C31_LoginFrame ==
    /\ \A rq \in Requests :
           RanLogin(rq)
           => /\ ~Wrote(rq, ProtectedKeys)
              /\ OtherKeys(rq.session) = OtherKeys(rq.sent)
              /\ \A k \in OtherKeys(rq.sent) : rq.session[k] = rq.sent[k]
              /\ rq.maxAge = StoreMaxAge
              /\ rq.setCookie.set
                 => /\ rq.setCookie.values = rq.session
                    /\ Restrict(rq.setCookie.values, ProtectedKeys)
                           = Restrict(rq.sent, ProtectedKeys)
                    /\ rq.setCookie.maxAge >= 0
    /\ (last.kind = "Login" /\ last.pc = "done")
       => Restrict(cookie, ProtectedKeys) = Restrict(last.sent, ProtectedKeys)

\* An authenticated session starts the flow again.
C31_Witness ==
    /\ last.kind = "Login"
    /\ RedirectsToProvider(last)
    /\ HasIdentity(last.sent)
    /\ Has(last.sent, "oauth_token")
    /\ last.sent["oauth_state"] = "s1"
    /\ cookie["oauth_state"] = "s2"
    /\ cookie["user_email"] = last.sent["user_email"]
    /\ cookie["oauth_token"] = last.sent["oauth_token"]

\* The re-login of a Callback whose token has no refresh token, on an
\* authenticated session.
C31_WitnessReLogin ==
    /\ NoRefreshToken(last)
    /\ RedirectsToProvider(last)
    /\ HasIdentity(last.sent)
    /\ last.setCookie.values["user_email"] = last.sent["user_email"]
    /\ last.setCookie.values["oauth_token"] = last.sent["oauth_token"]

(* C32: redirect resolution is a deterministic function of the request's   *)
(* forwarding headers, Host, TLS state and URL scheme and of the immutable *)
(* base URL: a Login and its Callback that arrive with the same forwarding *)
(* context compute the same redirect URL, so the redirect_uri sent at code *)
(* exchange equals the one sent in the authorization request, whatever     *)
(* other requests ran in between.                                          *)

\* The callback URL of a forwarding context under the base URL the service
\* was constructed with.
ContextRedirectURL(http) ==
    IF http = ProxiedRequest THEN "https://example.com/auth/google/callback"
    ELSE IF http = DirectRequest /\ call.args.googleOAuthBase = "http://localhost:8080"
    THEN "http://localhost:8080/auth/google/callback"
    ELSE "none"

\* The redirect_uri of the authorization request a Login answered with.
AuthorizationRedirectURI(rq) == rq.resp.location.query["redirect_uri"]

\* The redirect_uri a Callback gave to the code exchange.
ExchangeRedirectURI(rq) == rq.config.RedirectURL

C32_SameRedirectURI ==
    /\ service.publicBaseURL = call.result.service.publicBaseURL
    /\ \A rq \in Requests :
           /\ RedirectsToProvider(rq)
              => AuthorizationRedirectURI(rq) = ContextRedirectURL(rq.http)
           /\ Did(rq, "Exchange") => ExchangeRedirectURI(rq) = ContextRedirectURL(rq.http)
    /\ \A a, b \in Requests :
           (/\ RedirectsToProvider(a)
            /\ Did(b, "Exchange")
            /\ a.http = b.http)
           => ExchangeRedirectURI(b) = AuthorizationRedirectURI(a)

\* A Login that came through the proxy, and the Callback that carries the
\* state it issued, at the code exchange.
C32_Witness ==
    /\ last.kind = "Login"
    /\ last.http = ProxiedRequest
    /\ RedirectsToProvider(last)
    /\ Len(inflight) = 1
    /\ inflight[1].pc = "exchange"
    /\ inflight[1].http = last.http
    /\ inflight[1].state = last.resp.location.query["state"]
    /\ ExchangeRedirectURI(inflight[1]) = AuthorizationRedirectURI(last)
    /\ AuthorizationRedirectURI(last) = "https://example.com/auth/google/callback"

\* The Callback of the first state has been through the code exchange with
\* the redirect_uri of its forwarding context, after a second Login ran.
C32_WitnessBetween ==
    /\ last.kind = "Callback"
    /\ last.http = ProxiedRequest
    /\ last.state = "s1"
    /\ RedirectsToPostLogin(last)
    /\ randReads = 2
    /\ ExchangeRedirectURI(last) = "https://example.com/auth/google/callback"

(* C33, as claimed: every OAuth token that Callback stores in the session  *)
(* has a non-empty refresh token: while the provider keeps returning       *)
(* tokens without a refresh token the session never gains identity or      *)
(* token keys, and each such round ends in a new redirect to the provider  *)
(* rather than in an authenticated session.                                *)

\* The serialized tokens that carry a refresh token.
RefreshableTokens ==
    {Marshal(result.token) : result \in {r \in ExchangeResults : r.token.RefreshToken # ""}}

\* Every token in a session, in a Set-Cookie or in the browser carries a
\* refresh token, and an identity is held only beside such a token.
StoredTokensRefreshable ==
    /\ \A rq \in Requests :
           /\ Wrote(rq, ProtectedKeys)
              => /\ ~rq.env.exchange.err
                 /\ rq.env.exchange.token.RefreshToken # ""
           /\ Wrote(rq, {"oauth_token"})
              => rq.session["oauth_token"] = Marshal(rq.env.exchange.token)
           /\ Has(rq.session, "oauth_token") => rq.session["oauth_token"] \in RefreshableTokens
           /\ (rq.setCookie.set /\ Has(rq.setCookie.values, "oauth_token"))
              => rq.setCookie.values["oauth_token"] \in RefreshableTokens
    /\ Has(cookie, "oauth_token") => cookie["oauth_token"] \in RefreshableTokens
    /\ (\E k \in IdentityKeys : Has(cookie, k)) => Has(cookie, "oauth_token")

\* The round left the session's identity and token keys as they were.
GainedNothing(rq) ==
    /\ ~Wrote(rq, ProtectedKeys)
    /\ Restrict(rq.session, ProtectedKeys) = Restrict(rq.sent, ProtectedKeys)
    /\ rq.setCookie.set
       => Restrict(rq.setCookie.values, ProtectedKeys) = Restrict(rq.sent, ProtectedKeys)

C33_Original ==
    /\ StoredTokensRefreshable
    /\ \A rq \in Requests :
           NoRefreshToken(rq) => (GainedNothing(rq) /\ RedirectsToProvider(rq))

(* C33: every OAuth token that Callback stores in the session has a        *)
(* non-empty refresh token: while the provider keeps returning tokens      *)
(* without a refresh token the session never gains identity or token keys, *)
(* and each such round ends in the answer of the re-invoked Login, never   *)
(* in an authenticated session: a new redirect to the provider when the    *)
(* state is generated and the session saved, HTTP 500 otherwise.           *)

C33_RefreshToken ==
    /\ StoredTokensRefreshable
    /\ \A rq \in Requests :
           NoRefreshToken(rq)
           => /\ GainedNothing(rq)
              /\ ~RedirectsToPostLogin(rq)
              /\ (~rq.env.rnd.err /\ rq.env.saveOk) => RedirectsToProvider(rq)
              /\ (rq.env.rnd.err \/ ~rq.env.saveOk)
                 => /\ rq.resp.code = 500
                    /\ ~rq.setCookie.set

\* A round with a token without refresh token has sent the browser back to
\* the provider; the browser holds a new state and no identity or token.
C33_Witness ==
    /\ NoRefreshToken(last)
    /\ ~last.cancelled
    /\ RedirectsToProvider(last)
    /\ DOMAIN cookie = {"oauth_state"}
    /\ cookie["oauth_state"] = last.resp.location.query["state"]
    /\ cookie["oauth_state"] # last.state

====
